---- MODULE Spec2Model ----
(***************************************************************************)
(* Golden-snapshot engine of tuitestkit (snapshot.go): path resolution,    *)
(* the update/compare state machine over a file system, and the LCS diff.  *)
(* A Go string is a sequence of one-character strings.                     *)
(***************************************************************************)
EXTENDS Integers, Sequences, FiniteSets, TLC

VARIABLES UpdateSnapshots, snapshotBaseDir, fs, last, pth, d,
          boot, entry, inflight, rec, resp, ex, chk, kmsg

vars == <<UpdateSnapshots, snapshotBaseDir, fs, last, pth, d,
         boot, entry, inflight, rec, resp, ex, chk, kmsg>>

(***************************************************************************)
(* Bounds                                                                  *)
(***************************************************************************)
MaxFiles == 2
MaxNameLen == 3
MaxTextLen == 3

(***************************************************************************)
(* Strings                                                                 *)
(***************************************************************************)
RECURSIVE SeqsUpTo(_, _)
SeqsUpTo(S, n) ==
    IF n = 0 THEN {<<>>}
    ELSE LET shorter == SeqsUpTo(S, n - 1)
         IN  shorter \cup {Append(s, c) : s \in shorter, c \in S}

FirstIndex(s, c) ==
    IF \E k \in 1..Len(s) : s[k] = c
    THEN CHOOSE k \in 1..Len(s) : s[k] = c /\ \A h \in 1..(k - 1) : s[h] # c
    ELSE 0

LastIndex(s, c) ==
    IF \E k \in 1..Len(s) : s[k] = c
    THEN CHOOSE k \in 1..Len(s) : s[k] = c /\ \A h \in (k + 1)..Len(s) : s[h] # c
    ELSE 0

\* strings.Split(s, sep) for a one-character separator
RECURSIVE Split(_, _)
Split(s, sep) ==
    LET k == FirstIndex(s, sep)
    IN  IF k = 0 THEN <<s>>
        ELSE <<SubSeq(s, 1, k - 1)>> \o Split(SubSeq(s, k + 1, Len(s)), sep)

\* strings.Join(elems, sep)
RECURSIVE JoinWith(_, _)
JoinWith(elems, sep) ==
    IF elems = <<>> THEN <<>>
    ELSE IF Len(elems) = 1 THEN elems[1]
    ELSE elems[1] \o <<sep>> \o JoinWith(Tail(elems), sep)

(***************************************************************************)
(* path/filepath                                                           *)
(***************************************************************************)
Dot == <<".">>
DotDot == <<".", ".">>

RECURSIVE CleanFold(_, _, _)
CleanFold(segs, out, rooted) ==
    IF segs = <<>> THEN out
    ELSE LET h == Head(segs)
             t == Tail(segs)
         IN  IF h = <<>> \/ h = Dot THEN CleanFold(t, out, rooted)
             ELSE IF h = DotDot
                  THEN IF out # <<>> /\ out[Len(out)] # DotDot
                       THEN CleanFold(t, SubSeq(out, 1, Len(out) - 1), rooted)
                       ELSE IF rooted THEN CleanFold(t, out, rooted)
                       ELSE CleanFold(t, Append(out, h), rooted)
                  ELSE CleanFold(t, Append(out, h), rooted)

\* filepath.Clean
Clean(p) ==
    IF p = <<>> THEN Dot
    ELSE LET rooted == p[1] = "/"
             body   == JoinWith(CleanFold(Split(p, "/"), <<>>, rooted), "/")
         IN  IF rooted THEN <<"/">> \o body
             ELSE IF body = <<>> THEN Dot ELSE body

\* filepath.Join: empty elements are ignored, the result is cleaned
Join(elems) ==
    LET ne == SelectSeq(elems, LAMBDA e : e # <<>>)
    IN  IF ne = <<>> THEN <<>> ELSE Clean(JoinWith(ne, "/"))

\* filepath.Dir: everything up to the last separator, cleaned
Dir(p) == Clean(SubSeq(p, 1, LastIndex(p, "/")))

IsAbs(p) == p # <<>> /\ p[1] = "/"

\* the file-system location a path names for a process whose working directory is cwd
Abs(cwd, p) == IF IsAbs(p) THEN Clean(p) ELSE Join(<<cwd, p>>)

\* the proper ancestors (containing directories) of an absolute clean path
Ancestors(p) == {q \in {SubSeq(p, 1, k) : k \in 1..(Len(p) - 1)} :
                    \/ q = <<"/">>
                    \/ (p[Len(q) + 1] = "/" /\ q[Len(q)] # "/")}

Within(dir, p) == dir \in Ancestors(p)

(***************************************************************************)
(* The file system and package os                                          *)
(***************************************************************************)
NoErr == [op |-> "", path |-> <<>>, errno |-> "nil"]
PathError(op, path, errno) == [op |-> op, path |-> path, errno |-> errno]

IsDir(f, p)  == p \in DOMAIN f /\ f[p].kind = "dir"
IsFile(f, p) == p \in DOMAIN f /\ f[p].kind = "file"
DirNode == [kind |-> "dir", data |-> <<>>]
FileNode(data) == [kind |-> "file", data |-> data]

Files(f) == {p \in DOMAIN f : f[p].kind = "file"}

\* a regular file standing where a directory is needed on the way to p
Obstacle(f, p) == {q \in Ancestors(p) : IsFile(f, q)}

\* a strings.TrimRight(s, "\n") that takes one line break off the end
TrimNewline(s) == IF s # <<>> /\ s[Len(s)] = "\n" THEN SubSeq(s, 1, Len(s) - 1) ELSE s

\* faulty variant: no error counts as "not exist"
IsNotExistNever(err) == FALSE

\* os.IsNotExist
IsNotExist(err) == err.errno = "ENOENT"

\* faulty variant: os.Mkdir, which creates the last directory only
MkdirOnly(f, cwd, dir) ==
    LET p == Abs(cwd, dir)
    IN  IF p \in DOMAIN f THEN [fs |-> f, err |-> PathError("mkdir", dir, "EEXIST")]
        ELSE IF \E q \in Ancestors(p) : ~IsDir(f, q)
             THEN [fs |-> f, err |-> PathError("mkdir", dir, "ENOENT")]
        ELSE [fs |-> [q \in DOMAIN f \cup {p} |-> IF q = p THEN DirNode ELSE f[q]],
              err |-> NoErr]

\* os.MkdirAll(dir, 0o755)
MkdirAll(f, cwd, dir) ==
    LET p    == Abs(cwd, dir)
        both == Ancestors(p) \cup {p}
        bad  == {q \in both : IsFile(f, q)}
    IN  IF bad # {}
        THEN [fs |-> f, err |-> PathError("mkdir", dir, "ENOTDIR")]
        ELSE [fs |-> [q \in DOMAIN f \cup both |-> IF q \in DOMAIN f THEN f[q] ELSE DirNode],
              err |-> NoErr]

\* faulty variant: the file is opened with O_APPEND instead of O_TRUNC
WriteFileAppend(f, cwd, path, data) ==
    LET p == Abs(cwd, path)
    IN  IF Obstacle(f, p) # {} THEN [fs |-> f, err |-> PathError("open", path, "ENOTDIR")]
        ELSE IF \E q \in Ancestors(p) : q \notin DOMAIN f
             THEN [fs |-> f, err |-> PathError("open", path, "ENOENT")]
        ELSE IF IsDir(f, p) THEN [fs |-> f, err |-> PathError("open", path, "EISDIR")]
        ELSE [fs |-> [q \in DOMAIN f \cup {p} |->
                        IF q = p THEN FileNode((IF IsFile(f, p) THEN f[p].data ELSE <<>>) \o data)
                        ELSE f[q]],
              err |-> NoErr]

\* os.WriteFile(path, data, 0o644): create or truncate, then write
WriteFile(f, cwd, path, data) ==
    LET p == Abs(cwd, path)
    IN  IF Obstacle(f, p) # {} THEN [fs |-> f, err |-> PathError("open", path, "ENOTDIR")]
        ELSE IF \E q \in Ancestors(p) : q \notin DOMAIN f
             THEN [fs |-> f, err |-> PathError("open", path, "ENOENT")]
        ELSE IF IsDir(f, p) THEN [fs |-> f, err |-> PathError("open", path, "EISDIR")]
        ELSE [fs |-> [q \in DOMAIN f \cup {p} |-> IF q = p THEN FileNode(data) ELSE f[q]],
              err |-> NoErr]

\* faulty variant: the line break at the end of the file is dropped on reading
ReadFileTrim(f, cwd, path) ==
    LET p == Abs(cwd, path)
    IN  IF Obstacle(f, p) # {} THEN [data |-> <<>>, err |-> PathError("open", path, "ENOTDIR")]
        ELSE IF p \notin DOMAIN f THEN [data |-> <<>>, err |-> PathError("open", path, "ENOENT")]
        ELSE IF IsDir(f, p) THEN [data |-> <<>>, err |-> PathError("read", path, "EISDIR")]
        ELSE [data |-> TrimNewline(f[p].data), err |-> NoErr]

\* os.ReadFile(path)
ReadFile(f, cwd, path) ==
    LET p == Abs(cwd, path)
    IN  IF Obstacle(f, p) # {} THEN [data |-> <<>>, err |-> PathError("open", path, "ENOTDIR")]
        ELSE IF p \notin DOMAIN f THEN [data |-> <<>>, err |-> PathError("open", path, "ENOENT")]
        ELSE IF IsDir(f, p) THEN [data |-> <<>>, err |-> PathError("read", path, "EISDIR")]
        ELSE [data |-> f[p].data, err |-> NoErr]

(***************************************************************************)
(* The diff generator                                                      *)
(***************************************************************************)
DigitChars == <<"0", "1", "2", "3", "4", "5", "6", "7", "8", "9">>

RECURSIVE Digits(_)
Digits(n) == IF n < 10 THEN <<DigitChars[n + 1]>>
             ELSE Digits(n \div 10) \o <<DigitChars[(n % 10) + 1]>>

RECURSIVE Spaces(_)
Spaces(n) == IF n <= 0 THEN <<>> ELSE <<" ">> \o Spaces(n - 1)

\* fmt.Sprintf("%4d", n)
Pad4(n) == LET ds == Digits(n) IN Spaces(4 - Len(ds)) \o ds

\* fmt.Sprintf("<marker>%4d  %s", n, text)
DiffLine(marker, n, text) == <<marker>> \o Pad4(n) \o <<" ", " ">> \o text

HeaderExpected == <<"-", "-", "-", " ", "e", "x", "p", "e", "c", "t", "e", "d">>
HeaderActual == <<"+", "+", "+", " ", "a", "c", "t", "u", "a", "l">>

\* faulty variant: for unequal lines the cell above is taken, whatever the cell to the left
lcsTableAbove(a, b) ==
    LET m == Len(a)
        n == Len(b)
        table[ij \in (0..m) \X (0..n)] ==
            LET i == ij[1]
                j == ij[2]
            IN  IF i = 0 \/ j = 0 THEN 0
                ELSE IF a[i] = b[j] THEN table[<<i - 1, j - 1>>] + 1
                ELSE table[<<i - 1, j>>]
    IN  table

\* lcsTable builds the classic LCS DP table, table[i][j] for 0 <= i <= m, 0 <= j <= n
lcsTable(a, b) ==
    LET m == Len(a)
        n == Len(b)
        table[ij \in (0..m) \X (0..n)] ==
            LET i == ij[1]
                j == ij[2]
            IN  IF i = 0 \/ j = 0 THEN 0
                ELSE IF a[i] = b[j] THEN table[<<i - 1, j - 1>>] + 1
                ELSE IF table[<<i - 1, j>>] >= table[<<i, j - 1>>] THEN table[<<i - 1, j>>]
                ELSE table[<<i, j - 1>>]
    IN  table

\* faulty variant: equal lines are not recognised, every line is an addition or a removal
BacktrackStepNoContext(expLines, actLines, lcs, st) ==
    LET i == st.i
        j == st.j
    IN  IF j > 0 /\ (i = 0 \/ lcs[<<i, j - 1>>] >= lcs[<<i - 1, j>>])
        THEN [i |-> i, j |-> j - 1,
              lines |-> Append(st.lines, DiffLine("+", j, actLines[j]))]
        ELSE [i |-> i - 1, j |-> j,
              lines |-> Append(st.lines, DiffLine("-", i, expLines[i]))]

\* faulty variant: a tie between the two neighbours of the table is resolved for the removal
BacktrackStepRemovalFirst(expLines, actLines, lcs, st) ==
    LET i == st.i
        j == st.j
    IN  IF i > 0 /\ j > 0 /\ expLines[i] = actLines[j]
        THEN [i |-> i - 1, j |-> j - 1,
              lines |-> Append(st.lines, DiffLine(" ", i, expLines[i]))]
        ELSE IF j > 0 /\ (i = 0 \/ lcs[<<i, j - 1>>] > lcs[<<i - 1, j>>])
        THEN [i |-> i, j |-> j - 1,
              lines |-> Append(st.lines, DiffLine("+", j, actLines[j]))]
        ELSE [i |-> i - 1, j |-> j,
              lines |-> Append(st.lines, DiffLine("-", i, expLines[i]))]

\* faulty variant: an addition is numbered by the position reached in the baseline
BacktrackStepBaselineNumbers(expLines, actLines, lcs, st) ==
    LET i == st.i
        j == st.j
    IN  IF i > 0 /\ j > 0 /\ expLines[i] = actLines[j]
        THEN [i |-> i - 1, j |-> j - 1,
              lines |-> Append(st.lines, DiffLine(" ", i, expLines[i]))]
        ELSE IF j > 0 /\ (i = 0 \/ lcs[<<i, j - 1>>] >= lcs[<<i - 1, j>>])
        THEN [i |-> i, j |-> j - 1,
              lines |-> Append(st.lines, DiffLine("+", i, actLines[j]))]
        ELSE [i |-> i - 1, j |-> j,
              lines |-> Append(st.lines, DiffLine("-", i, expLines[i]))]

\* faulty variant: the backtrack moves to the neighbour with the shorter common subsequence
BacktrackStepShorter(expLines, actLines, lcs, st) ==
    LET i == st.i
        j == st.j
    IN  IF i > 0 /\ j > 0 /\ expLines[i] = actLines[j]
        THEN [i |-> i - 1, j |-> j - 1,
              lines |-> Append(st.lines, DiffLine(" ", i, expLines[i]))]
        ELSE IF j > 0 /\ (i = 0 \/ lcs[<<i, j - 1>>] <= lcs[<<i - 1, j>>])
        THEN [i |-> i, j |-> j - 1,
              lines |-> Append(st.lines, DiffLine("+", j, actLines[j]))]
        ELSE [i |-> i - 1, j |-> j,
              lines |-> Append(st.lines, DiffLine("-", i, expLines[i]))]

\* one iteration of the backtrack loop of unifiedDiff
BacktrackStep(expLines, actLines, lcs, st) ==
    LET i == st.i
        j == st.j
    IN  IF i > 0 /\ j > 0 /\ expLines[i] = actLines[j]
        THEN [i |-> i - 1, j |-> j - 1,
              lines |-> Append(st.lines, DiffLine(" ", i, expLines[i]))]
        ELSE IF j > 0 /\ (i = 0 \/ lcs[<<i, j - 1>>] >= lcs[<<i - 1, j>>])
        THEN [i |-> i, j |-> j - 1,
              lines |-> Append(st.lines, DiffLine("+", j, actLines[j]))]
        ELSE [i |-> i - 1, j |-> j,
              lines |-> Append(st.lines, DiffLine("-", i, expLines[i]))]

RECURSIVE Backtrack(_, _, _, _)
Backtrack(expLines, actLines, lcs, st) ==
    IF st.i > 0 \/ st.j > 0
    THEN Backtrack(expLines, actLines, lcs, BacktrackStep(expLines, actLines, lcs, st))
    ELSE st.lines

\* faulty variant: the lines are written in the order the backtrack collected them
RECURSIVE RenderForward(_)
RenderForward(lines) ==
    IF lines = <<>> THEN <<>>
    ELSE lines[1] \o <<"\n">> \o RenderForward(Tail(lines))

\* the header, then the collected lines last to first, each ended by a line break
RECURSIVE RenderReversed(_)
RenderReversed(lines) ==
    IF lines = <<>> THEN <<>>
    ELSE lines[Len(lines)] \o <<"\n">> \o RenderReversed(SubSeq(lines, 1, Len(lines) - 1))

RenderDiff(lines) ==
    HeaderExpected \o <<"\n">> \o HeaderActual \o <<"\n">> \o RenderReversed(lines)

unifiedDiff(expected, actual) ==
    LET expLines == Split(expected, "\n")
        actLines == Split(actual, "\n")
        lcs      == lcsTable(expLines, actLines)
    IN  RenderDiff(Backtrack(expLines, actLines, lcs,
                             [i |-> Len(expLines), j |-> Len(actLines), lines |-> <<>>]))

(***************************************************************************)
(* The comparison engine                                                   *)
(***************************************************************************)
GoldenExt == <<".", "g", "o", "l", "d", "e", "n">>
TestdataSeg == <<"t", "e", "s", "t", "d", "a", "t", "a">>
SnapshotsSeg == <<"s", "n", "a", "p", "s", "h", "o", "t", "s">>

\* runtime.Caller reports no file (ok = false)
NoCaller == <<>>

\* the working directory of the test process
ProcessDir == <<"/", "p">>

\* init(): the switch is set from the environment at process start
EnvValues == {"unset", "", "0", "1", "true", "yes"}
initUpdateSnapshots(env) == env = "1"

(* the inputs of the model *)
Names == {<<"a">>,
          <<"a", ".", "g", "o", "l", "d", "e", "n", "/", "x">>,
          <<".", ".", "/", "a">>}

\* the empty text, a line, and the same line ended by a line break
Contents == {<<>>, <<"x">>, <<"x", "\n">>}

TempDir == <<"/", "t">>
NestedDir == <<"/", "t", "/", "n">>
BaseDirs == {<<>>, NestedDir}

TestFile == <<"/", "p", "/", "x", "_", "t", "e", "s", "t", ".", "g", "o">>
Callers == {TestFile, NoCaller}

\* faulty variant: the caller's directory wins over the configured one whenever a caller is found
snapshotPathCallerFirst(name, caller, baseDir) ==
    IF caller = NoCaller
    THEN IF baseDir = <<>> THEN [ok |-> FALSE, base |-> <<>>, path |-> <<>>]
         ELSE [ok |-> TRUE, base |-> baseDir, path |-> Join(<<baseDir, name \o GoldenExt>>)]
    ELSE LET base == Join(<<Dir(caller), TestdataSeg, SnapshotsSeg>>)
         IN  [ok |-> TRUE, base |-> base, path |-> Join(<<base, name \o GoldenExt>>)]

\* snapshotPath: base is the baseline directory, path the golden file
snapshotPath(name, caller, baseDir) ==
    IF baseDir = <<>> /\ caller = NoCaller
    THEN [ok |-> FALSE, base |-> <<>>, path |-> <<>>]
    ELSE LET base == IF baseDir = <<>>
                     THEN Join(<<Dir(caller), TestdataSeg, SnapshotsSeg>>)
                     ELSE baseDir
         IN  [ok |-> TRUE, base |-> base, path |-> Join(<<base, name \o GoldenExt>>)]

\* the parts of a formatted message: literal text and formatted arguments
Lit(text) == [kind |-> "lit", lit |-> text, str |-> <<>>, err |-> NoErr]
ArgQ(str) == [kind |-> "%q", lit |-> "", str |-> str, err |-> NoErr]
ArgS(str) == [kind |-> "%s", lit |-> "", str |-> str, err |-> NoErr]
ArgV(err) == [kind |-> "%v", lit |-> "", str |-> <<>>, err |-> err]

MkdirMsg(dir, err) ==
    <<Lit("snapshot: cannot create directory "), ArgS(dir), Lit(": "), ArgV(err)>>
WriteMsg(path, err) ==
    <<Lit("snapshot: cannot write golden file "), ArgS(path), Lit(": "), ArgV(err)>>
MissingMsg(name, path) ==
    <<Lit("snapshot "), ArgQ(name), Lit(": golden file not found at "), ArgS(path),
      Lit("\nRun with "), Lit("UPDATE_SNAPSHOTS=1"), Lit(" to create it.")>>
\* faulty variant: the message of the read failure leaves the error out
ReadMsgBare(name, err) ==
    <<Lit("snapshot "), ArgQ(name), Lit(": cannot read golden file")>>

ReadMsg(name, err) ==
    <<Lit("snapshot "), ArgQ(name), Lit(": cannot read golden file: "), ArgV(err)>>
MismatchMsg(name, diff) ==
    <<Lit("snapshot "), ArgQ(name), Lit(" mismatch:\n"), ArgS(diff)>>

Fatalf(msg) == [sev |-> "Fatalf", msg |-> msg]
Errorf(msg) == [sev |-> "Errorf", msg |-> msg]

\* what a call did besides reporting: file operations (with the directories or file
\* they created), comparisons, diffs
Op(op, path, err, made) == [op |-> op, path |-> path, err |-> err, made |-> made]

\* the reporters: Fatalf of "stop" ends the call (testing.T, fakeT), Fatalf of "return" returns
Reporters == {"stop", "return"}

\* faulty variant: a baseline that exists is kept, only a missing one is written
UpdateBranchKeep(t, f, path, content) ==
    LET dir == Dir(path)
        mk  == MkdirAll(f, ProcessDir, dir)
        wr  == IF IsFile(mk.fs, Abs(ProcessDir, path)) THEN [fs |-> mk.fs, err |-> NoErr]
               ELSE WriteFile(mk.fs, ProcessDir, path, content)
        op1 == <<Op("MkdirAll", dir, mk.err, DOMAIN mk.fs \ DOMAIN f)>>
        op2 == <<Op("WriteFile", path, wr.err, DOMAIN wr.fs \ DOMAIN mk.fs)>>
        rp1 == IF mk.err # NoErr THEN <<Fatalf(MkdirMsg(dir, mk.err))>> ELSE <<>>
        rp2 == IF wr.err # NoErr THEN <<Fatalf(WriteMsg(path, wr.err))>> ELSE <<>>
    IN  IF mk.err # NoErr /\ t = "stop"
        THEN [fs |-> mk.fs, reports |-> rp1, ops |-> op1]
        ELSE [fs |-> wr.fs, reports |-> rp1 \o rp2, ops |-> op1 \o op2]

\* the update branch of snapshot
UpdateBranch(t, f, path, content) ==
    LET dir == Dir(path)
        mk  == MkdirAll(f, ProcessDir, dir)
        wr  == WriteFile(mk.fs, ProcessDir, path, content)
        op1 == <<Op("MkdirAll", dir, mk.err, DOMAIN mk.fs \ DOMAIN f)>>
        op2 == <<Op("WriteFile", path, wr.err, DOMAIN wr.fs \ DOMAIN mk.fs)>>
        rp1 == IF mk.err # NoErr THEN <<Fatalf(MkdirMsg(dir, mk.err))>> ELSE <<>>
        rp2 == IF wr.err # NoErr THEN <<Fatalf(WriteMsg(path, wr.err))>> ELSE <<>>
    IN  IF mk.err # NoErr /\ t = "stop"
        THEN [fs |-> mk.fs, reports |-> rp1, ops |-> op1]
        ELSE [fs |-> wr.fs, reports |-> rp1 \o rp2, ops |-> op1 \o op2]

\* faulty variant: the texts are compared with the line break at their end trimmed
SameContentTrimmed(expectedStr, content) == TrimNewline(expectedStr) = TrimNewline(content)

\* expectedStr == content
SameContent(expectedStr, content) == expectedStr = content

\* faulty variant: a compare that finds no baseline creates it from the candidate
CompareBranchCreate(t, f, name, path, content) ==
    LET rd == ReadFile(f, ProcessDir, path)
        mk == MkdirAll(f, ProcessDir, Dir(path))
        wr == WriteFile(mk.fs, ProcessDir, path, content)
    IN  IF rd.err # NoErr /\ IsNotExist(rd.err)
        THEN [fs |-> wr.fs, reports |-> <<Fatalf(MissingMsg(name, path))>>,
              ops |-> <<Op("ReadFile", path, rd.err, {})>>]
        ELSE IF rd.err # NoErr
        THEN [fs |-> f, reports |-> <<Fatalf(ReadMsg(name, rd.err))>>,
              ops |-> <<Op("ReadFile", path, rd.err, {})>>]
        ELSE [fs |-> f,
              reports |-> IF SameContent(rd.data, content) THEN <<>>
                          ELSE <<Errorf(MismatchMsg(name, unifiedDiff(rd.data, content)))>>,
              ops |-> <<Op("ReadFile", path, rd.err, {}), Op("compare", path, NoErr, {})>>]

\* faulty variant: the statements after a Fatalf run whatever the reporter does
CompareBranchFallThrough(t, f, name, path, content) ==
    LET rd  == ReadFile(f, ProcessDir, path)
        rp1 == IF rd.err # NoErr /\ IsNotExist(rd.err)
               THEN <<Fatalf(MissingMsg(name, path))>> ELSE <<>>
        rp2 == IF rd.err # NoErr THEN <<Fatalf(ReadMsg(name, rd.err))>> ELSE <<>>
        cmp == <<Op("ReadFile", path, rd.err, {}), Op("compare", path, NoErr, {})>>
    IN  IF SameContent(rd.data, content)
        THEN [fs |-> f, reports |-> rp1 \o rp2, ops |-> cmp]
        ELSE [fs |-> f,
              reports |-> rp1 \o rp2
                          \o <<Errorf(MismatchMsg(name, unifiedDiff(rd.data, content)))>>,
              ops |-> cmp \o <<Op("unifiedDiff", path, NoErr, {})>>]

\* the compare branch of snapshot
CompareBranch(t, f, name, path, content) ==
    LET rd  == ReadFile(f, ProcessDir, path)
        op1 == <<Op("ReadFile", path, rd.err, {})>>
        rp1 == IF rd.err # NoErr /\ IsNotExist(rd.err)
               THEN <<Fatalf(MissingMsg(name, path))>> ELSE <<>>
        rp2 == IF rd.err # NoErr THEN <<Fatalf(ReadMsg(name, rd.err))>> ELSE <<>>
        expectedStr == rd.data
        cmp == <<Op("compare", path, NoErr, {})>>
    IN  IF rp1 # <<>> /\ t = "stop"
        THEN [fs |-> f, reports |-> rp1, ops |-> op1]
        ELSE IF rp2 # <<>> /\ t = "stop"
        THEN [fs |-> f, reports |-> rp2, ops |-> op1]
        ELSE IF SameContent(expectedStr, content)
        THEN [fs |-> f, reports |-> rp1 \o rp2, ops |-> op1 \o cmp]
        ELSE [fs |-> f,
              reports |-> rp1 \o rp2
                          \o <<Errorf(MismatchMsg(name, unifiedDiff(expectedStr, content)))>>,
              ops |-> op1 \o cmp \o <<Op("unifiedDiff", path, NoErr, {})>>]

\* snapshot(t, content, name, callerSkip); caller is the file runtime.Caller finds
snapshot(t, content, name, caller, update, baseDir, f) ==
    LET sp == snapshotPath(name, caller, baseDir)
        br == IF update THEN UpdateBranch(t, f, sp.path, content)
              ELSE CompareBranch(t, f, name, sp.path, content)
        hd == [mode |-> IF update THEN "update" ELSE "compare", name |-> name,
               content |-> content, dir |-> sp.base, path |-> sp.path]
    IN  IF ~sp.ok
        THEN [fs |-> f, call |-> hd @@ [panicked |-> TRUE, reports |-> <<>>, ops |-> <<>>]]
        ELSE [fs |-> br.fs,
              call |-> hd @@ [panicked |-> FALSE, reports |-> br.reports, ops |-> br.ops]]

(***************************************************************************)
(* The engine as a state machine                                           *)
(***************************************************************************)
InitFs == [q \in {<<"/">>, TempDir, ProcessDir} |-> DirNode]

NoCall == [mode |-> "none", name |-> <<>>, content |-> <<>>,
           dir |-> <<>>, path |-> <<>>, panicked |-> FALSE, reports |-> <<>>, ops |-> <<>>]

NoPth == [pc |-> "off"]
NoDiff == [pc |-> "off"]
NoBoot == [pc |-> "off"]
NoEntry == [pc |-> "off"]
NoInflight == [pc |-> "off"]
NoRec == [pc |-> "off"]
NoResp == [pc |-> "off"]
NoEx == [pc |-> "off"]
NoChk == [pc |-> "off"]
NoKey == [pc |-> "off"]

Init ==
    /\ \E env \in EnvValues : UpdateSnapshots = initUpdateSnapshots(env)
    /\ snapshotBaseDir = <<>>
    /\ fs = InitFs
    /\ last = NoCall
    /\ pth = NoPth
    /\ d = NoDiff
    /\ boot = NoBoot
    /\ entry = NoEntry
    /\ inflight = NoInflight
    /\ rec = NoRec
    /\ resp = NoResp
    /\ ex = NoEx
    /\ chk = NoChk
    /\ kmsg = NoKey

\* test code assigns the switch
SetUpdateSnapshots(b) ==
    /\ UpdateSnapshots' = b
    /\ UNCHANGED <<snapshotBaseDir, fs, last, pth, d,
                   boot, entry, inflight, rec, resp, ex, chk, kmsg>>

\* a test configures the baseline directory before its first call (withSnapshotDir)
SetSnapshotBaseDir(dir) ==
    /\ last = NoCall
    /\ snapshotBaseDir' = dir
    /\ UNCHANGED <<UpdateSnapshots, fs, last, pth, d,
                   boot, entry, inflight, rec, resp, ex, chk, kmsg>>

\* one call of snapshot
Snapshot(t, content, name, caller) ==
    \E r \in {snapshot(t, content, name, caller, UpdateSnapshots, snapshotBaseDir, fs)} :
        /\ Cardinality(Files(r.fs)) <= MaxFiles
        /\ fs' = r.fs
        /\ last' = r.call
        /\ UNCHANGED <<UpdateSnapshots, snapshotBaseDir, pth, d,
                       boot, entry, inflight, rec, resp, ex, chk, kmsg>>

Next ==
    \/ \E b \in BOOLEAN : SetUpdateSnapshots(b)
    \/ \E dir \in BaseDirs : SetSnapshotBaseDir(dir)
    \/ \E t \in Reporters, content \in Contents, name \in Names, caller \in Callers :
          Snapshot(t, content, name, caller)

Spec == Init /\ [][Next]_vars

(***************************************************************************)
(* snapshotPath as a function of its inputs                                *)
(***************************************************************************)
PathNames == SeqsUpTo({"a", ".", "/"}, MaxNameLen)
OtherTestFile == <<"/", "q", "/", "y", "_", "t", "e", "s", "t", ".", "g", "o">>
PathCallers == {TestFile, OtherTestFile, NoCaller}
OtherDir == <<"/", "q">>
WorkDirs == {ProcessDir, OtherDir}
\* an absolute directory, one with a trailing separator, a nested one, a relative one
PathBaseDirs == {<<>>, TempDir, <<"/", "t", "/">>, NestedDir, <<"r">>}

InitPath ==
    /\ UpdateSnapshots = FALSE
    /\ fs = InitFs
    /\ last = NoCall
    /\ d = NoDiff
    /\ boot = NoBoot
    /\ entry = NoEntry
    /\ inflight = NoInflight
    /\ rec = NoRec
    /\ resp = NoResp
    /\ ex = NoEx
    /\ chk = NoChk
    /\ kmsg = NoKey
    /\ snapshotBaseDir \in PathBaseDirs
    /\ \E name \in PathNames, caller \in PathCallers, cwd \in WorkDirs :
          pth = [pc |-> "start", name |-> name, caller |-> caller, cwd |-> cwd,
                 res |-> [ok |-> FALSE, base |-> <<>>, path |-> <<>>]]

ResolvePath ==
    /\ pth.pc = "start"
    /\ pth' = [pth EXCEPT !.pc = "done",
                          !.res = snapshotPath(pth.name, pth.caller, snapshotBaseDir)]
    /\ UNCHANGED <<UpdateSnapshots, snapshotBaseDir, fs, last, d,
                   boot, entry, inflight, rec, resp, ex, chk, kmsg>>

NextPath == ResolvePath

SpecPath == InitPath /\ [][NextPath]_vars

(***************************************************************************)
(* unifiedDiff step by step                                                *)
(***************************************************************************)
Texts == SeqsUpTo({"a", "b", "\n"}, MaxTextLen)

InitDiff ==
    /\ UpdateSnapshots = FALSE
    /\ snapshotBaseDir = <<>>
    /\ fs = InitFs
    /\ last = NoCall
    /\ pth = NoPth
    /\ boot = NoBoot
    /\ entry = NoEntry
    /\ inflight = NoInflight
    /\ rec = NoRec
    /\ resp = NoResp
    /\ ex = NoEx
    /\ chk = NoChk
    /\ kmsg = NoKey
    /\ \E expected \in Texts, actual \in Texts :
          d = [pc |-> "split", expected |-> expected, actual |-> actual,
               expLines |-> <<>>, actLines |-> <<>>, lcs |-> <<>>,
               i |-> 0, j |-> 0, lines |-> <<>>, out |-> <<>>]

\* split both texts, build the table, start at the bottom right corner
DiffSplit ==
    /\ d.pc = "split"
    /\ \E expLines \in {Split(d.expected, "\n")}, actLines \in {Split(d.actual, "\n")} :
          d' = [d EXCEPT !.pc = "loop", !.expLines = expLines, !.actLines = actLines,
                         !.lcs = lcsTable(expLines, actLines),
                         !.i = Len(expLines), !.j = Len(actLines)]
    /\ UNCHANGED <<UpdateSnapshots, snapshotBaseDir, fs, last, pth,
                   boot, entry, inflight, rec, resp, ex, chk, kmsg>>

\* for i > 0 || j > 0
DiffBacktrack ==
    /\ d.pc = "loop"
    /\ d.i > 0 \/ d.j > 0
    /\ \E st \in {BacktrackStep(d.expLines, d.actLines, d.lcs,
                                [i |-> d.i, j |-> d.j, lines |-> d.lines])} :
          d' = [d EXCEPT !.i = st.i, !.j = st.j, !.lines = st.lines]
    /\ UNCHANGED <<UpdateSnapshots, snapshotBaseDir, fs, last, pth,
                   boot, entry, inflight, rec, resp, ex, chk, kmsg>>

\* write the header and the lines in top-to-bottom order
DiffRender ==
    /\ d.pc = "loop"
    /\ d.i = 0 /\ d.j = 0
    /\ d' = [d EXCEPT !.pc = "done", !.out = RenderDiff(d.lines)]
    /\ UNCHANGED <<UpdateSnapshots, snapshotBaseDir, fs, last, pth,
                   boot, entry, inflight, rec, resp, ex, chk, kmsg>>

NextDiff == DiffSplit \/ DiffBacktrack \/ DiffRender

SpecDiff == InitDiff /\ [][NextDiff]_vars

(***************************************************************************)
(* Concurrent calls of snapshot: every call in its steps of file I/O       *)
(***************************************************************************)
Goroutines == {1, 2, 3}

RaceNames == {<<"a">>, <<".", "/", "a">>}
RaceContents == {<<"x", "y">>, <<"z">>}

\* the baseline a test run may find in place before its first call
RaceBaseline == <<"x">>

\* os.WriteFile, first half: OpenFile(name, O_WRONLY|O_CREATE|O_TRUNC, perm)
OpenFile(f, cwd, path) == WriteFile(f, cwd, path, <<>>)

\* faulty variant: the file is opened with O_APPEND, the bytes go to the end of the file
WriteAtEnd(f, cwd, path, data) ==
    LET p   == Abs(cwd, path)
        old == IF IsFile(f, p) THEN f[p].data ELSE <<>>
    IN  [q \in DOMAIN f \cup {p} |-> IF q = p THEN FileNode(old \o data) ELSE f[q]]

\* os.WriteFile, second half: f.Write(data) puts the bytes at offset 0 of what the file holds
Write(f, cwd, path, data) ==
    LET p   == Abs(cwd, path)
        old == IF IsFile(f, p) THEN f[p].data ELSE <<>>
    IN  [q \in DOMAIN f \cup {p} |->
            IF q = p THEN FileNode(data \o SubSeq(old, Len(data) + 1, Len(old))) ELSE f[q]]

Idle == [pc |-> "idle", mode |-> "none", name |-> <<>>, content |-> <<>>,
         path |-> <<>>, seen |-> <<>>, reports |-> <<>>]

InitRace ==
    /\ \E env \in EnvValues : UpdateSnapshots = initUpdateSnapshots(env)
    /\ snapshotBaseDir = TempDir
    /\ \E f \in {InitFs, WriteFile(InitFs, ProcessDir, snapshotPath(<<"a">>, TestFile, TempDir).path,
                                   RaceBaseline).fs} : fs = f
    /\ last = NoCall
    /\ pth = NoPth
    /\ d = NoDiff
    /\ boot = NoBoot
    /\ entry = NoEntry
    /\ inflight = [g \in Goroutines |-> Idle]
    /\ rec = NoRec
    /\ resp = NoResp
    /\ ex = NoEx
    /\ chk = NoChk
    /\ kmsg = NoKey

\* the call starts: snapshotPath, then the switch is read (if UpdateSnapshots)
Start(g, content, name) ==
    /\ inflight[g].pc = "idle"
    /\ \E sp \in {snapshotPath(name, TestFile, snapshotBaseDir)} :
          inflight' = [inflight EXCEPT ![g] =
                          [@ EXCEPT !.pc = IF ~sp.ok THEN "panicked"
                                           ELSE IF UpdateSnapshots THEN "mkdir" ELSE "read",
                                    !.mode = IF UpdateSnapshots THEN "update" ELSE "compare",
                                    !.name = name, !.content = content, !.path = sp.path]]
    /\ UNCHANGED <<UpdateSnapshots, snapshotBaseDir, fs, last, pth, d,
                   boot, entry, rec, resp, ex, chk, kmsg>>

\* os.MkdirAll(dir, 0o755)
Mkdir(g) ==
    /\ inflight[g].pc = "mkdir"
    /\ \E mk \in {MkdirAll(fs, ProcessDir, Dir(inflight[g].path))} :
          /\ fs' = mk.fs
          /\ inflight' = [inflight EXCEPT ![g] =
                IF mk.err # NoErr
                THEN [@ EXCEPT !.pc = "done",
                               !.reports = <<Fatalf(MkdirMsg(Dir(inflight[g].path), mk.err))>>]
                ELSE [@ EXCEPT !.pc = "open"]]
    /\ UNCHANGED <<UpdateSnapshots, snapshotBaseDir, last, pth, d,
                   boot, entry, rec, resp, ex, chk, kmsg>>

\* os.WriteFile opens the golden file: it is created, or cut to length 0
Open(g) ==
    /\ inflight[g].pc = "open"
    /\ \E op \in {OpenFile(fs, ProcessDir, inflight[g].path)} :
          /\ fs' = op.fs
          /\ inflight' = [inflight EXCEPT ![g] =
                IF op.err # NoErr
                THEN [@ EXCEPT !.pc = "done",
                               !.reports = <<Fatalf(WriteMsg(inflight[g].path, op.err))>>]
                ELSE [@ EXCEPT !.pc = "write"]]
    /\ UNCHANGED <<UpdateSnapshots, snapshotBaseDir, last, pth, d,
                   boot, entry, rec, resp, ex, chk, kmsg>>

\* faulty variant: the switch is read again after the write, and a call that finds it
\* off goes on into the compare branch
WriteContentRereads(g) ==
    /\ inflight[g].pc = "write"
    /\ fs' = Write(fs, ProcessDir, inflight[g].path, inflight[g].content)
    /\ inflight' = [inflight EXCEPT ![g] =
                       [@ EXCEPT !.pc = IF UpdateSnapshots THEN "done" ELSE "read"]]
    /\ UNCHANGED <<UpdateSnapshots, snapshotBaseDir, last, pth, d,
                   boot, entry, rec, resp, ex, chk, kmsg>>

\* os.WriteFile writes the content and closes the file; the call returns
WriteContent(g) ==
    /\ inflight[g].pc = "write"
    /\ fs' = Write(fs, ProcessDir, inflight[g].path, inflight[g].content)
    /\ inflight' = [inflight EXCEPT ![g] = [@ EXCEPT !.pc = "done"]]
    /\ UNCHANGED <<UpdateSnapshots, snapshotBaseDir, last, pth, d,
                   boot, entry, rec, resp, ex, chk, kmsg>>

\* os.ReadFile, then the comparison and the report of the compare branch
Read(g) ==
    /\ inflight[g].pc = "read"
    /\ \E br \in {CompareBranch("stop", fs, inflight[g].name, inflight[g].path,
                                inflight[g].content)} :
          inflight' = [inflight EXCEPT ![g] =
                          [@ EXCEPT !.pc = "done",
                                    !.seen = ReadFile(fs, ProcessDir, inflight[g].path).data,
                                    !.reports = br.reports]]
    /\ UNCHANGED <<UpdateSnapshots, snapshotBaseDir, fs, last, pth, d,
                   boot, entry, rec, resp, ex, chk, kmsg>>

NextRace ==
    \/ \E b \in BOOLEAN : SetUpdateSnapshots(b)
    \/ \E g \in Goroutines, content \in RaceContents, name \in RaceNames : Start(g, content, name)
    \/ \E g \in Goroutines : Mkdir(g)
    \/ \E g \in Goroutines : Open(g)
    \/ \E g \in Goroutines : WriteContent(g)
    \/ \E g \in Goroutines : Read(g)

SpecRace == InitRace /\ [][NextRace]_vars

(***************************************************************************)
(* The switch: process start, assignments by test code, calls              *)
(***************************************************************************)
MaxAssign == 3

\* the process before init() has run: the package variables hold their zero values
InitSwitch ==
    /\ UpdateSnapshots = FALSE
    /\ snapshotBaseDir = <<>>
    /\ fs = InitFs
    /\ last = NoCall
    /\ pth = NoPth
    /\ d = NoDiff
    /\ \E env \in EnvValues : boot = [pc |-> "start", env |-> env, assigned |-> <<>>]
    /\ entry = NoEntry
    /\ inflight = NoInflight
    /\ rec = NoRec
    /\ resp = NoResp
    /\ ex = NoEx
    /\ chk = NoChk
    /\ kmsg = NoKey

\* init(): if os.Getenv("UPDATE_SNAPSHOTS") == "1" { UpdateSnapshots = true }
ProcessStart ==
    /\ boot.pc = "start"
    /\ UpdateSnapshots' = IF initUpdateSnapshots(boot.env) THEN TRUE ELSE UpdateSnapshots
    /\ boot' = [boot EXCEPT !.pc = "run"]
    /\ UNCHANGED <<snapshotBaseDir, fs, last, pth, d, entry, inflight, rec, resp, ex, chk, kmsg>>

\* test code assigns the switch; boot.assigned keeps the values assigned so far
AssignUpdateSnapshots(b) ==
    /\ boot.pc = "run"
    /\ Len(boot.assigned) < MaxAssign
    /\ UpdateSnapshots' = b
    /\ boot' = [boot EXCEPT !.assigned = Append(@, b)]
    /\ UNCHANGED <<snapshotBaseDir, fs, last, pth, d, entry, inflight, rec, resp, ex, chk, kmsg>>

\* faulty variant: the first call fixes the mode, later calls reuse it
SwitchCallCached(content) ==
    /\ boot.pc = "run"
    /\ \E r \in {snapshot("stop", content, <<"a">>, TestFile,
                          IF last = NoCall THEN UpdateSnapshots ELSE last.mode = "update",
                          snapshotBaseDir, fs)} :
          /\ fs' = r.fs
          /\ last' = r.call
    /\ UNCHANGED <<UpdateSnapshots, snapshotBaseDir, pth, d, boot, entry, inflight, rec, resp, ex, chk, kmsg>>

\* a test of the running process calls snapshot
SwitchCall(content) ==
    /\ boot.pc = "run"
    /\ \E r \in {snapshot("stop", content, <<"a">>, TestFile, UpdateSnapshots,
                          snapshotBaseDir, fs)} :
          /\ fs' = r.fs
          /\ last' = r.call
    /\ UNCHANGED <<UpdateSnapshots, snapshotBaseDir, pth, d, boot, entry, inflight, rec, resp, ex, chk, kmsg>>

NextSwitch ==
    \/ ProcessStart
    \/ \E b \in BOOLEAN : AssignUpdateSnapshots(b)
    \/ \E content \in Contents : SwitchCall(content)

SpecSwitch == InitSwitch /\ [][NextSwitch]_vars

(***************************************************************************)
(* The entry points and the normalization of the view                      *)
(***************************************************************************)
\* the byte 0x1b
Esc == "ESC"

\* parameter bytes (0x30-0x3f) of a control sequence; every other byte of the model's
\* alphabet except Esc and the line break is a final byte
IsParam(c) == c \in {"0", "1", ";"}

\* ansi.Strip: the escape-sequence parser of the terminal, keeping what it prints or
\* executes: Esc opens a sequence in every state, "[" after Esc opens a control sequence
\* that runs through its parameter bytes up to a final byte, any other byte after Esc ends
\* the sequence, and a line break is kept wherever it stands
RECURSIVE Strip(_, _)
Strip(s, state) ==
    IF s = <<>> THEN <<>>
    ELSE LET c == Head(s)
         IN  IF c = Esc THEN Strip(Tail(s), "escape")
             ELSE IF c = "\n" THEN <<c>> \o Strip(Tail(s), state)
             ELSE IF state = "ground" THEN <<c>> \o Strip(Tail(s), "ground")
             ELSE IF state = "escape"
                  THEN Strip(Tail(s), IF c = "[" THEN "csi" ELSE "ground")
             ELSE Strip(Tail(s), IF IsParam(c) THEN "csi" ELSE "ground")

\* StripANSI(s) returns ansi.Strip(s)
StripANSI(s) == Strip(s, "ground")

\* views passed by the tests: plain, styled in two ways around the same text, with a line
\* break, and one whose last control sequence is cut short
Views == {<<"x">>,
          <<Esc, "[", "1", ";", "0", "m", "x", Esc, "[", "0", "m">>,
          <<Esc, "[", "m", "x">>,
          <<"x", "\n">>,
          <<Esc, "[", "1", "m", "x", "\n", Esc, "[", "m">>,
          <<"x", Esc, "[", "1">>}

\* model.View() of a stubModel
View(model) == model.view
Models == {[view |-> v] : v \in Views}

EntryName == <<"a">>

NotEntered == [pc |-> "none", fn |-> "", view |-> <<>>]

InitEntry ==
    /\ \E env \in EnvValues : UpdateSnapshots = initUpdateSnapshots(env)
    /\ snapshotBaseDir = TempDir
    /\ fs = InitFs
    /\ last = NoCall
    /\ pth = NoPth
    /\ d = NoDiff
    /\ boot = NoBoot
    /\ entry = NotEntered
    /\ inflight = NoInflight
    /\ rec = NoRec
    /\ resp = NoResp
    /\ ex = NoEx
    /\ chk = NoChk
    /\ kmsg = NoKey

\* the call of snapshot made by an entry point; entry keeps the function and its argument
Enter(fn, view, content, name) ==
    /\ \E r \in {snapshot("stop", content, name, TestFile, UpdateSnapshots, snapshotBaseDir, fs)} :
          /\ fs' = r.fs
          /\ last' = r.call
    /\ entry' = [pc |-> "called", fn |-> fn, view |-> view]
    /\ UNCHANGED <<UpdateSnapshots, snapshotBaseDir, pth, d, boot, inflight, rec, resp, ex, chk, kmsg>>

SnapshotView(model, name) == Enter("SnapshotView", View(model), StripANSI(View(model)), name)

SnapshotViewRaw(model, name) == Enter("SnapshotViewRaw", View(model), View(model), name)

\* faulty variant: the view is stripped in the compare branch only, update stores it as it is
SnapshotStrLate(view, name) ==
    Enter("SnapshotStr", view, IF UpdateSnapshots THEN view ELSE StripANSI(view), name)

SnapshotStr(view, name) == Enter("SnapshotStr", view, StripANSI(view), name)

SnapshotStrRaw(view, name) == Enter("SnapshotStrRaw", view, view, name)

NextEntry ==
    \/ \E b \in BOOLEAN : SetUpdateSnapshots(b)
    \/ \E model \in Models : SnapshotView(model, EntryName)
    \/ \E model \in Models : SnapshotViewRaw(model, EntryName)
    \/ \E view \in Views : SnapshotStr(view, EntryName)
    \/ \E view \in Views : SnapshotStrRaw(view, EntryName)

SpecEntry == InitEntry /\ [][NextEntry]_vars

(***************************************************************************)
(* MockCallRecorder (mock.go): the recorder used from one goroutine        *)
(***************************************************************************)
MaxCalls == 3

Methods == {"A", "B"}
ArgLists == {<<>>, <<1, 2>>}
\* what a caller writes into a slice it was given
Mutated == "MUTATED"
MutatedArg == 9

\* a slice of arguments is a reference into the heap of backing arrays; nil is 0
NilSlice == 0

\* MockCall{Method: method, Args: args}
MockCall(method, args) == [Method |-> method, Args |-> args]

\* the call site of Record(method, args...): no slice when no argument is passed,
\* otherwise a new backing array
Variadic(heap, args) ==
    IF args = <<>> THEN [heap |-> heap, ref |-> NilSlice]
    ELSE [heap |-> Append(heap, args), ref |-> Len(heap) + 1]

\* the elements a slice of arguments shows
Elems(heap, ref) == IF ref = NilSlice THEN <<>> ELSE heap[ref]

\* what the holder of a slice of MockCall sees in it
Seen(heap, calls) ==
    [k \in 1..Len(calls) |-> [Method |-> calls[k].Method, Args |-> Elems(heap, calls[k].Args)]]

\* faulty variant: every recorded call is counted
countAll(calls, method, k) == Len(calls)

\* CallCount: for _, c := range r.calls { if c.Method == method { n++ } }
RECURSIVE countCalls(_, _, _)
countCalls(calls, method, k) ==
    IF k > Len(calls) THEN 0
    ELSE (IF calls[k].Method = method THEN 1 ELSE 0) + countCalls(calls, method, k + 1)

\* Calls: out := make([]MockCall, len(r.calls)); copy(out, r.calls)
copyCalls(calls) == [k \in 1..Len(calls) |-> calls[k]]

\* CallsFor: for _, c := range r.calls { if c.Method == method { out = append(out, c) } }
RECURSIVE filterCalls(_, _, _)
filterCalls(calls, method, k) ==
    IF k > Len(calls) THEN <<>>
    ELSE (IF calls[k].Method = method THEN <<calls[k]>> ELSE <<>>)
         \o filterCalls(calls, method, k + 1)

NoRet == [method |-> "", count |-> 0, list |-> <<>>]

\* var r MockCallRecorder; log keeps the invocations of Record since the last Reset and n
\* counts the invocations of the run
InitRec(workers) ==
    [mu |-> 0, calls |-> <<>>, heap |-> <<>>, out |-> <<>>, op |-> "new", ret |-> NoRet,
     log |-> <<>>, n |-> 0, g |-> workers]

InitBook ==
    /\ UpdateSnapshots = FALSE
    /\ snapshotBaseDir = <<>>
    /\ fs = InitFs
    /\ last = NoCall
    /\ pth = NoPth
    /\ d = NoDiff
    /\ boot = NoBoot
    /\ entry = NoEntry
    /\ inflight = NoInflight
    /\ rec = InitRec(<<>>)
    /\ resp = NoResp
    /\ ex = NoEx
    /\ chk = NoChk
    /\ kmsg = NoKey

Record(method, args) ==
    /\ rec.mu = 0
    /\ rec.n < MaxCalls
    /\ \E a \in {Variadic(rec.heap, args)} :
          rec' = [rec EXCEPT !.heap = a.heap,
                             !.calls = Append(@, MockCall(method, a.ref)),
                             !.op = "Record", !.ret = NoRet,
                             !.log = Append(@, [Method |-> method, Args |-> args]),
                             !.n = @ + 1]
    /\ UNCHANGED <<UpdateSnapshots, snapshotBaseDir, fs, last, pth, d,
                   boot, entry, inflight, resp, ex, chk, kmsg>>

CallCount(method) ==
    /\ rec.mu = 0
    /\ rec' = [rec EXCEPT !.op = "CallCount",
                          !.ret = [method |-> method, count |-> countCalls(rec.calls, method, 1),
                                   list |-> <<>>]]
    /\ UNCHANGED <<UpdateSnapshots, snapshotBaseDir, fs, last, pth, d,
                   boot, entry, inflight, resp, ex, chk, kmsg>>

\* out is the slice the caller holds, ret.list what the caller sees in it on return
Calls ==
    /\ rec.mu = 0
    /\ \E out \in {copyCalls(rec.calls)} :
          rec' = [rec EXCEPT !.op = "Calls", !.out = out,
                             !.ret = [method |-> "", count |-> 0, list |-> Seen(rec.heap, out)]]
    /\ UNCHANGED <<UpdateSnapshots, snapshotBaseDir, fs, last, pth, d,
                   boot, entry, inflight, resp, ex, chk, kmsg>>

CallsFor(method) ==
    /\ rec.mu = 0
    /\ \E out \in {filterCalls(rec.calls, method, 1)} :
          rec' = [rec EXCEPT !.op = "CallsFor", !.out = out,
                             !.ret = [method |-> method, count |-> 0,
                                      list |-> Seen(rec.heap, out)]]
    /\ UNCHANGED <<UpdateSnapshots, snapshotBaseDir, fs, last, pth, d,
                   boot, entry, inflight, resp, ex, chk, kmsg>>

\* r.calls = nil
Reset ==
    /\ rec.mu = 0
    /\ rec' = [rec EXCEPT !.calls = <<>>, !.op = "Reset", !.ret = NoRet, !.log = <<>>]
    /\ UNCHANGED <<UpdateSnapshots, snapshotBaseDir, fs, last, pth, d,
                   boot, entry, inflight, resp, ex, chk, kmsg>>

NextBook ==
    \/ \E method \in Methods, args \in ArgLists : Record(method, args)
    \/ \E method \in Methods : CallCount(method)
    \/ Calls
    \/ \E method \in Methods : CallsFor(method)
    \/ Reset

SpecBook == InitBook /\ [][NextBook]_vars

(***************************************************************************)
(* MockCallRecorder: the caller writes into the slice that Calls returned  *)
(***************************************************************************)
\* calls[i].Method = method
SetMethod(i, method) ==
    /\ i \in 1..Len(rec.out)
    /\ rec' = [rec EXCEPT !.out[i].Method = method, !.op = "SetMethod", !.ret = NoRet]
    /\ UNCHANGED <<UpdateSnapshots, snapshotBaseDir, fs, last, pth, d,
                   boot, entry, inflight, resp, ex, chk, kmsg>>

\* calls[i].Args[j] = v
SetArg(i, j, v) ==
    /\ i \in 1..Len(rec.out)
    /\ j \in 1..Len(Elems(rec.heap, rec.out[i].Args))
    /\ rec' = [rec EXCEPT !.heap[rec.out[i].Args][j] = v, !.op = "SetArg", !.ret = NoRet]
    /\ UNCHANGED <<UpdateSnapshots, snapshotBaseDir, fs, last, pth, d,
                   boot, entry, inflight, resp, ex, chk, kmsg>>

NextAlias ==
    \/ \E method \in Methods, args \in ArgLists : Record(method, args)
    \/ \E method \in Methods : CallCount(method)
    \/ Calls
    \/ \E method \in Methods : CallsFor(method)
    \/ Reset
    \/ \E i \in 1..MaxCalls : SetMethod(i, Mutated)
    \/ \E i \in 1..MaxCalls, j \in 1..2 : SetArg(i, j, MutatedArg)

SpecAlias == InitBook /\ [][NextAlias]_vars

(***************************************************************************)
(* MockCallRecorder: Record called from several goroutines                 *)
(***************************************************************************)
MaxRecords == 2

Workers == {1, 2, 3}

\* fmt.Sprintf("method-%d", id)
MethodOf(w) == <<"method-1", "method-2", "method-3">>[w]

InitRecord ==
    /\ UpdateSnapshots = FALSE
    /\ snapshotBaseDir = <<>>
    /\ fs = InitFs
    /\ last = NoCall
    /\ pth = NoPth
    /\ d = NoDiff
    /\ boot = NoBoot
    /\ entry = NoEntry
    /\ inflight = NoInflight
    /\ rec = InitRec([w \in Workers |-> [pc |-> "idle", n |-> 0, ref |-> NilSlice, tmp |-> <<>>]])
    /\ resp = NoResp
    /\ ex = NoEx
    /\ chk = NoChk
    /\ kmsg = NoKey

\* faulty variant: Record does not wait for the mutex
RecordNoLock(w) ==
    /\ rec.g[w].pc = "idle"
    /\ rec.g[w].n < MaxRecords
    /\ \E a \in {Variadic(rec.heap, <<rec.g[w].n + 1>>)} :
          rec' = [rec EXCEPT !.mu = w, !.heap = a.heap, !.op = "Record", !.ret = NoRet,
                             !.n = @ + 1,
                             !.g[w] = [pc |-> "locked", n |-> rec.g[w].n + 1, ref |-> a.ref,
                                       tmp |-> <<>>]]
    /\ UNCHANGED <<UpdateSnapshots, snapshotBaseDir, fs, last, pth, d,
                   boot, entry, inflight, resp, ex, chk, kmsg>>

\* goroutine w calls r.Record(MethodOf(w), j) for its next j: r.mu.Lock()
RecordLock(w) ==
    /\ rec.mu = 0
    /\ rec.g[w].pc = "idle"
    /\ rec.g[w].n < MaxRecords
    /\ \E a \in {Variadic(rec.heap, <<rec.g[w].n + 1>>)} :
          rec' = [rec EXCEPT !.mu = w, !.heap = a.heap, !.op = "Record", !.ret = NoRet,
                             !.n = @ + 1,
                             !.g[w] = [pc |-> "locked", n |-> rec.g[w].n + 1, ref |-> a.ref,
                                       tmp |-> <<>>]]
    /\ UNCHANGED <<UpdateSnapshots, snapshotBaseDir, fs, last, pth, d,
                   boot, entry, inflight, resp, ex, chk, kmsg>>

\* append(r.calls, ...) reads r.calls
RecordLoad(w) ==
    /\ rec.g[w].pc = "locked"
    /\ rec' = [rec EXCEPT !.op = "Record", !.g[w].pc = "loaded", !.g[w].tmp = rec.calls]
    /\ UNCHANGED <<UpdateSnapshots, snapshotBaseDir, fs, last, pth, d,
                   boot, entry, inflight, resp, ex, chk, kmsg>>

\* r.calls = the slice read, with the call appended
RecordStore(w) ==
    /\ rec.g[w].pc = "loaded"
    /\ rec' = [rec EXCEPT !.op = "Record", !.g[w].pc = "stored", !.g[w].tmp = <<>>,
                          !.calls = Append(rec.g[w].tmp, MockCall(MethodOf(w), rec.g[w].ref))]
    /\ UNCHANGED <<UpdateSnapshots, snapshotBaseDir, fs, last, pth, d,
                   boot, entry, inflight, resp, ex, chk, kmsg>>

\* defer r.mu.Unlock(); Record returns
RecordUnlock(w) ==
    /\ rec.g[w].pc = "stored"
    /\ rec' = [rec EXCEPT !.op = "Record", !.mu = 0, !.g[w].pc = "idle", !.g[w].ref = NilSlice]
    /\ UNCHANGED <<UpdateSnapshots, snapshotBaseDir, fs, last, pth, d,
                   boot, entry, inflight, resp, ex, chk, kmsg>>

NextRecord ==
    \/ \E w \in Workers : RecordLock(w)
    \/ \E w \in Workers : RecordLoad(w)
    \/ \E w \in Workers : RecordStore(w)
    \/ \E w \in Workers : RecordUnlock(w)
    \/ Calls

SpecRecord == InitRecord /\ [][NextRecord]_vars

(***************************************************************************)
(* MockResponseMap (mock.go) used from several goroutines                  *)
(***************************************************************************)
Clients == {1, 2}

Keys == {"k1", "k2"}
Nil == "nil"
DataValues == {Nil, "d1"}
ErrorValues == {Nil, "e1"}

\* MockResponse{Data: data, Error: err}; ok is the second result of the map lookup
MockResponse(data, err) == [ok |-> TRUE, Data |-> data, Error |-> err]
NoResponse == [ok |-> FALSE, Data |-> Nil, Error |-> Nil]

NotCalling == [pc |-> "idle", fn |-> "", key |-> "", data |-> Nil, err |-> Nil,
               ret |-> NoResponse]

\* NewMockResponseMap(); done keeps, per key, the response of the last Set or SetError
\* that has returned
InitResponses ==
    /\ UpdateSnapshots = FALSE
    /\ snapshotBaseDir = <<>>
    /\ fs = InitFs
    /\ last = NoCall
    /\ pth = NoPth
    /\ d = NoDiff
    /\ boot = NoBoot
    /\ entry = NoEntry
    /\ inflight = NoInflight
    /\ rec = NoRec
    /\ resp = [mu |-> 0, responses |-> [k \in Keys |-> NoResponse],
               done |-> [k \in Keys |-> NoResponse], g |-> [w \in Clients |-> NotCalling]]
    /\ ex = NoEx
    /\ chk = NoChk
    /\ kmsg = NoKey

\* goroutine w calls a method of the map
Invoke(w, fn, key, data, err) ==
    /\ resp.g[w].pc = "idle"
    /\ resp' = [resp EXCEPT !.g[w] = [pc |-> "called", fn |-> fn, key |-> key, data |-> data,
                                      err |-> err, ret |-> NoResponse]]
    /\ UNCHANGED <<UpdateSnapshots, snapshotBaseDir, fs, last, pth, d,
                   boot, entry, inflight, rec, ex, chk, kmsg>>

Set(w, key, data, err) == Invoke(w, "Set", key, data, err)

\* SetError: m.Set(key, nil, err)
SetError(w, key, err) == Invoke(w, "SetError", key, Nil, err)

Get(w, key) == Invoke(w, "Get", key, Nil, Nil)

\* faulty variant: the mutex is taken without waiting for its holder
LockNoWait(w) ==
    /\ resp.g[w].pc = "called"
    /\ resp' = [resp EXCEPT !.mu = w, !.g[w].pc = "locked"]
    /\ UNCHANGED <<UpdateSnapshots, snapshotBaseDir, fs, last, pth, d,
                   boot, entry, inflight, rec, ex, chk, kmsg>>

\* m.mu.Lock()
Lock(w) ==
    /\ resp.mu = 0
    /\ resp.g[w].pc = "called"
    /\ resp' = [resp EXCEPT !.mu = w, !.g[w].pc = "locked"]
    /\ UNCHANGED <<UpdateSnapshots, snapshotBaseDir, fs, last, pth, d,
                   boot, entry, inflight, rec, ex, chk, kmsg>>

\* Set: m.responses[key] = MockResponse{Data: data, Error: err}
SetStore(w) ==
    /\ resp.g[w].pc = "locked"
    /\ resp.g[w].fn \in {"Set", "SetError"}
    /\ resp' = [resp EXCEPT !.responses[resp.g[w].key] =
                                MockResponse(resp.g[w].data, resp.g[w].err),
                            !.g[w].pc = "unlock"]
    /\ UNCHANGED <<UpdateSnapshots, snapshotBaseDir, fs, last, pth, d,
                   boot, entry, inflight, rec, ex, chk, kmsg>>

\* Get: resp, ok := m.responses[key]; (nil, nil) if !ok, else (resp.Data, resp.Error)
GetLoad(w) ==
    /\ resp.g[w].pc = "locked"
    /\ resp.g[w].fn = "Get"
    /\ resp' = [resp EXCEPT !.g[w].pc = "unlock",
                            !.g[w].ret = IF ~resp.responses[resp.g[w].key].ok THEN NoResponse
                                         ELSE resp.responses[resp.g[w].key]]
    /\ UNCHANGED <<UpdateSnapshots, snapshotBaseDir, fs, last, pth, d,
                   boot, entry, inflight, rec, ex, chk, kmsg>>

\* defer m.mu.Unlock(); the method returns
Unlock(w) ==
    /\ resp.g[w].pc = "unlock"
    /\ resp' = [resp EXCEPT !.mu = 0, !.g[w].pc = "idle",
                            !.done = IF resp.g[w].fn = "Get" THEN @
                                     ELSE [@ EXCEPT ![resp.g[w].key] =
                                              MockResponse(resp.g[w].data, resp.g[w].err)]]
    /\ UNCHANGED <<UpdateSnapshots, snapshotBaseDir, fs, last, pth, d,
                   boot, entry, inflight, rec, ex, chk, kmsg>>

NextResponses ==
    \/ \E w \in Clients, key \in Keys, data \in DataValues, err \in ErrorValues :
          Set(w, key, data, err)
    \/ \E w \in Clients, key \in Keys, err \in ErrorValues : SetError(w, key, err)
    \/ \E w \in Clients, key \in Keys : Get(w, key)
    \/ \E w \in Clients : Lock(w)
    \/ \E w \in Clients : SetStore(w)
    \/ \E w \in Clients : GetLoad(w)
    \/ \E w \in Clients : Unlock(w)

SpecResponses == InitResponses /\ [][NextResponses]_vars

(***************************************************************************)
(* ExecCmds (harness.go): one call with its recursive calls, step by step  *)
(***************************************************************************)
MaxBatch == 2
MaxDepth == 4

\* a nil tea.Cmd
NilCmd == "nilCmd"
\* cmds that return a message of their own, or nil
LeafCmds == {"cmdInc", "cmdDec", "cmdNil"}
\* cmds that return a tea.BatchMsg
BatchCmds == {"batch1", "batch2"}
Cmds == {NilCmd} \cup LeafCmds \cup BatchCmds
CmdLists == SeqsUpTo(Cmds, MaxBatch)

\* a tea.Msg: nil, a message of the test, or a tea.BatchMsg (a []tea.Cmd)
Msg(type) == [type |-> type, cmds |-> <<>>]
NilMsg == Msg("nil")
BatchMsg(cmds) == [type |-> "BatchMsg", cmds |-> cmds]
LeafMsg(cmd) ==
    CASE cmd = "cmdInc" -> Msg("incMsg")
      [] cmd = "cmdDec" -> Msg("decMsg")
      [] cmd = "cmdNil" -> NilMsg

\* the activation record of one call: the loop over cmds at index i, the msgs collected
Frame(cmds) == [cmds |-> cmds, i |-> 1, pc |-> "range", msg |-> NilMsg, msgs |-> <<>>]

InitExec ==
    /\ UpdateSnapshots = FALSE
    /\ snapshotBaseDir = <<>>
    /\ fs = InitFs
    /\ last = NoCall
    /\ pth = NoPth
    /\ d = NoDiff
    /\ boot = NoBoot
    /\ entry = NoEntry
    /\ inflight = NoInflight
    /\ rec = NoRec
    /\ resp = NoResp
    /\ chk = NoChk
    /\ kmsg = NoKey
    /\ \E members \in [BatchCmds -> CmdLists] :
          ex = [pc |-> "idle",
                returns |-> [c \in LeafCmds \cup BatchCmds |->
                                IF c \in BatchCmds THEN BatchMsg(members[c]) ELSE LeafMsg(c)],
                input |-> <<>>, stack |-> <<>>, ran |-> <<>>, msgs |-> <<>>]

\* the frame of the innermost call
Top == ex.stack[Len(ex.stack)]
SetTop(frame) == [ex.stack EXCEPT ![Len(ex.stack)] = frame]
Looping == ex.pc = "run" /\ Top.pc = "range" /\ Top.i <= Len(Top.cmds)

\* msgs := ExecCmds(cmds...)
ExecCmds(cmds) ==
    /\ ex.pc = "idle"
    /\ ex' = [ex EXCEPT !.pc = "run", !.input = cmds, !.stack = <<Frame(cmds)>>]
    /\ UNCHANGED <<UpdateSnapshots, snapshotBaseDir, fs, last, pth, d,
                   boot, entry, inflight, rec, resp, chk, kmsg>>

\* if cmd == nil { continue }
SkipNilCmd ==
    /\ Looping
    /\ Top.cmds[Top.i] = NilCmd
    /\ ex' = [ex EXCEPT !.stack = SetTop([Top EXCEPT !.i = @ + 1])]
    /\ UNCHANGED <<UpdateSnapshots, snapshotBaseDir, fs, last, pth, d,
                   boot, entry, inflight, rec, resp, chk, kmsg>>

\* msg := cmd()
RunCmd ==
    /\ Looping
    /\ Top.cmds[Top.i] # NilCmd
    /\ ex' = [ex EXCEPT !.ran = Append(@, Top.cmds[Top.i]),
                        !.stack = SetTop([Top EXCEPT !.pc = "ran",
                                                     !.msg = ex.returns[Top.cmds[Top.i]]])]
    /\ UNCHANGED <<UpdateSnapshots, snapshotBaseDir, fs, last, pth, d,
                   boot, entry, inflight, rec, resp, chk, kmsg>>

\* if msg == nil { continue }
SkipNilMsg ==
    /\ ex.pc = "run" /\ Top.pc = "ran"
    /\ Top.msg = NilMsg
    /\ ex' = [ex EXCEPT !.stack = SetTop([Top EXCEPT !.pc = "range", !.i = @ + 1])]
    /\ UNCHANGED <<UpdateSnapshots, snapshotBaseDir, fs, last, pth, d,
                   boot, entry, inflight, rec, resp, chk, kmsg>>

\* msgs = append(msgs, msg)
AppendMsg ==
    /\ ex.pc = "run" /\ Top.pc = "ran"
    /\ Top.msg # NilMsg /\ Top.msg.type # "BatchMsg"
    /\ ex' = [ex EXCEPT !.stack = SetTop([Top EXCEPT !.pc = "range", !.i = @ + 1,
                                                     !.msgs = Append(@, Top.msg)])]
    /\ UNCHANGED <<UpdateSnapshots, snapshotBaseDir, fs, last, pth, d,
                   boot, entry, inflight, rec, resp, chk, kmsg>>

\* the recursive call ExecCmds(batch...)
ExecBatch ==
    /\ ex.pc = "run" /\ Top.pc = "ran"
    /\ Top.msg.type = "BatchMsg"
    /\ Len(ex.stack) < MaxDepth
    /\ ex' = [ex EXCEPT !.stack = Append(SetTop([Top EXCEPT !.pc = "call"]),
                                         Frame(Top.msg.cmds))]
    /\ UNCHANGED <<UpdateSnapshots, snapshotBaseDir, fs, last, pth, d,
                   boot, entry, inflight, rec, resp, chk, kmsg>>

\* the goroutine's stack is exhausted by a recursion that does not end: the process dies
StackOverflow ==
    /\ ex.pc = "run" /\ Top.pc = "ran"
    /\ Top.msg.type = "BatchMsg"
    /\ Len(ex.stack) >= MaxDepth
    /\ ex' = [ex EXCEPT !.pc = "overflow"]
    /\ UNCHANGED <<UpdateSnapshots, snapshotBaseDir, fs, last, pth, d,
                   boot, entry, inflight, rec, resp, chk, kmsg>>

\* the faulty variant that puts the messages of the batch in front of the caller's
ReturnFront ==
    /\ ex.pc = "run" /\ Top.pc = "range" /\ Top.i > Len(Top.cmds)
    /\ Len(ex.stack) > 1
    /\ LET caller == ex.stack[Len(ex.stack) - 1]
           rest == SubSeq(ex.stack, 1, Len(ex.stack) - 2)
       IN  ex' = [ex EXCEPT !.stack = Append(rest, [caller EXCEPT !.pc = "range", !.i = @ + 1,
                                                                  !.msgs = Top.msgs \o @])]
    /\ UNCHANGED <<UpdateSnapshots, snapshotBaseDir, fs, last, pth, d,
                   boot, entry, inflight, rec, resp, chk, kmsg>>

\* return msgs, to msgs = append(msgs, ExecCmds(batch...)...) of the caller
ReturnFlat ==
    /\ ex.pc = "run" /\ Top.pc = "range" /\ Top.i > Len(Top.cmds)
    /\ Len(ex.stack) > 1
    /\ LET caller == ex.stack[Len(ex.stack) - 1]
           rest == SubSeq(ex.stack, 1, Len(ex.stack) - 2)
       IN  ex' = [ex EXCEPT !.stack = Append(rest, [caller EXCEPT !.pc = "range", !.i = @ + 1,
                                                                  !.msgs = @ \o Top.msgs])]
    /\ UNCHANGED <<UpdateSnapshots, snapshotBaseDir, fs, last, pth, d,
                   boot, entry, inflight, rec, resp, chk, kmsg>>

\* return msgs, to the caller of ExecCmds
Return ==
    /\ ex.pc = "run" /\ Top.pc = "range" /\ Top.i > Len(Top.cmds)
    /\ Len(ex.stack) = 1
    /\ ex' = [ex EXCEPT !.pc = "done", !.stack = <<>>, !.msgs = Top.msgs]
    /\ UNCHANGED <<UpdateSnapshots, snapshotBaseDir, fs, last, pth, d,
                   boot, entry, inflight, rec, resp, chk, kmsg>>

NextExec ==
    \/ \E cmds \in CmdLists : ExecCmds(cmds)
    \/ SkipNilCmd
    \/ RunCmd
    \/ SkipNilMsg
    \/ AppendMsg
    \/ ExecBatch
    \/ StackOverflow
    \/ ReturnFlat
    \/ Return

\* the goroutine that made the call keeps running it
SpecExec == InitExec /\ [][NextExec]_vars /\ WF_vars(NextExec)

(***************************************************************************)
(* InvariantChecker (reducer.go): Check, one invariant at a time           *)
(***************************************************************************)
MaxInvariants == 3

\* counterState{Count, Min: CountMin, Max: CountMax}
CountMin == 0
CountMax == 1
Counts == {0 - 1, 0, 1, 2}

\* Invariant.Check of the invariants of the tests: nil, or the error it returns
InvariantNames == {"non-negative", "under max", "count within bounds"}
InvariantCheck(name, count) ==
    CASE name = "non-negative" -> IF count < 0 THEN "count is negative" ELSE Nil
      [] name = "under max" -> IF count > CountMax THEN "count exceeds max" ELSE Nil
      [] name = "count within bounds" ->
            IF count < CountMin \/ count > CountMax THEN "count out of bounds" ELSE Nil

\* a nil error
NoError == [name |-> Nil, err |-> Nil]
\* fmt.Errorf("invariant %q violated: %w", inv.Name, err)
Violation(name, err) == [name |-> name, err |-> err]

\* NewInvariantChecker(invariants...)
NewInvariantChecker(invariants) ==
    [pc |-> "idle", invariants |-> invariants, s |-> 0, i |-> 1, evaluated |-> <<>>,
     ret |-> NoError]

InitCheck ==
    /\ UpdateSnapshots = FALSE
    /\ snapshotBaseDir = <<>>
    /\ fs = InitFs
    /\ last = NoCall
    /\ pth = NoPth
    /\ d = NoDiff
    /\ boot = NoBoot
    /\ entry = NoEntry
    /\ inflight = NoInflight
    /\ rec = NoRec
    /\ resp = NoResp
    /\ ex = NoEx
    /\ kmsg = NoKey
    /\ \E invariants \in SeqsUpTo(InvariantNames, MaxInvariants) :
          chk = NewInvariantChecker(invariants)

\* err := checker.Check(s)
Check(s) ==
    /\ chk.pc \in {"idle", "done"}
    /\ chk' = [chk EXCEPT !.pc = "range", !.s = s, !.i = 1, !.evaluated = <<>>,
                          !.ret = NoError]
    /\ UNCHANGED <<UpdateSnapshots, snapshotBaseDir, fs, last, pth, d,
                   boot, entry, inflight, rec, resp, ex, kmsg>>

\* one iteration: if err := inv.Check(s); err != nil { return fmt.Errorf(...) }
CheckInvariant ==
    /\ chk.pc = "range"
    /\ chk.i <= Len(chk.invariants)
    /\ LET inv == chk.invariants[chk.i]
           err == InvariantCheck(inv, chk.s)
       IN  \/ /\ err # Nil
              /\ chk' = [chk EXCEPT !.pc = "done", !.evaluated = Append(@, inv),
                                    !.ret = Violation(inv, err)]
           \/ /\ err = Nil
              /\ chk' = [chk EXCEPT !.evaluated = Append(@, inv), !.i = @ + 1]
    /\ UNCHANGED <<UpdateSnapshots, snapshotBaseDir, fs, last, pth, d,
                   boot, entry, inflight, rec, resp, ex, kmsg>>

\* return nil
CheckReturnNil ==
    /\ chk.pc = "range"
    /\ chk.i > Len(chk.invariants)
    /\ chk' = [chk EXCEPT !.pc = "done", !.ret = NoError]
    /\ UNCHANGED <<UpdateSnapshots, snapshotBaseDir, fs, last, pth, d,
                   boot, entry, inflight, rec, resp, ex, kmsg>>

NextCheck ==
    \/ \E s \in Counts : Check(s)
    \/ CheckInvariant
    \/ CheckReturnNil

SpecCheck == InitCheck /\ [][NextCheck]_vars

(***************************************************************************)
(* The key-message builder (messages.go): Key, resolveKey, Keys            *)
(***************************************************************************)
MaxKeys == 2

LowerChars == <<"a", "b", "c", "d", "e", "f", "g", "h", "i", "j", "k", "l", "m",
                "n", "o", "p", "q", "r", "s", "t", "u", "v", "w", "x", "y", "z">>
UpperChars == <<"A", "B", "C", "D", "E", "F", "G", "H", "I", "J", "K", "L", "M",
                "N", "O", "P", "Q", "R", "S", "T", "U", "V", "W", "X", "Y", "Z">>

\* unicode.ToLower and unicode.ToUpper of one character
ToLowerChar(c) ==
    IF \E k \in 1..Len(UpperChars) : UpperChars[k] = c
    THEN LowerChars[CHOOSE k \in 1..Len(UpperChars) : UpperChars[k] = c]
    ELSE c
ToUpperChar(c) ==
    IF \E k \in 1..Len(LowerChars) : LowerChars[k] = c
    THEN UpperChars[CHOOSE k \in 1..Len(LowerChars) : LowerChars[k] = c]
    ELSE c

\* strings.ToLower, strings.ToUpper, strings.HasPrefix
ToLower(s) == [k \in 1..Len(s) |-> ToLowerChar(s[k])]
ToUpper(s) == [k \in 1..Len(s) |-> ToUpperChar(s[k])]
HasPrefix(s, prefix) == Len(s) >= Len(prefix) /\ SubSeq(s, 1, Len(prefix)) = prefix

AltPrefix == <<"a", "l", "t", "+">>

\* the entries of specialKeyMap and ctrlKeyMap that the inputs below can name
specialKeyMap ==
    (<<"e", "n", "t", "e", "r">> :> "KeyEnter") @@
    (<<"t", "a", "b">> :> "KeyTab") @@
    (<<"e", "s", "c">> :> "KeyEsc") @@
    (<<"s", "p", "a", "c", "e">> :> "KeySpace") @@
    (<<"u", "p">> :> "KeyUp") @@
    (<<"f", "1">> :> "KeyF1")
ctrlKeyMap ==
    (<<"c", "t", "r", "l", "+", "c">> :> "KeyCtrlC") @@
    (<<"c", "t", "r", "l", "+", "a">> :> "KeyCtrlA")

\* tea.KeyMsg{Type, Runes, Alt}
KeyMsg(type, runes) == [Type |-> type, Runes |-> runes, Alt |-> FALSE]

\* resolveKey(k): ctrl combos first, then special keys, then runes
resolveKey(k) ==
    IF k \in DOMAIN ctrlKeyMap THEN KeyMsg(ctrlKeyMap[k], <<>>)
    ELSE IF k \in DOMAIN specialKeyMap
    THEN IF specialKeyMap[k] = "KeySpace" THEN KeyMsg("KeySpace", <<" ">>)
         ELSE KeyMsg(specialKeyMap[k], <<>>)
    ELSE IF Len(k) = 1 THEN KeyMsg("KeyRunes", k)
    ELSE KeyMsg("KeyRunes", k)

\* Key(k)
Key(k) ==
    LET lower == ToLower(k)
    IN  IF HasPrefix(lower, AltPrefix)
        THEN [resolveKey(SubSeq(lower, 5, Len(lower))) EXCEPT !.Alt = TRUE]
        ELSE resolveKey(lower)

\* key strings as test code writes them: names, ctrl combos, single runes and longer text,
\* with and without the alt prefix, in lower case, in upper case and capitalised
KeyNames == DOMAIN specialKeyMap \cup DOMAIN ctrlKeyMap
RuneKeys == {<<"a">>, <<"h">>, <<"1">>, <<"/">>, <<" ">>}
PlainKeys == KeyNames \cup RuneKeys \cup {<<"x", "y">>}
Capitalised(s) == IF s = <<>> THEN s ELSE <<ToUpperChar(s[1])>> \o Tail(s)
KeyInputs ==
    LET written == PlainKeys \cup {AltPrefix \o s : s \in PlainKeys}
    IN  written \cup {ToUpper(s) : s \in written} \cup {Capitalised(s) : s \in written}
                \cup {AltPrefix \o ToUpper(s) : s \in PlainKeys}

InitKeys ==
    /\ UpdateSnapshots = FALSE
    /\ snapshotBaseDir = <<>>
    /\ fs = InitFs
    /\ last = NoCall
    /\ pth = NoPth
    /\ d = NoDiff
    /\ boot = NoBoot
    /\ entry = NoEntry
    /\ inflight = NoInflight
    /\ rec = NoRec
    /\ resp = NoResp
    /\ ex = NoEx
    /\ chk = NoChk
    /\ kmsg = [pc |-> "idle", keys |-> <<>>, i |-> 1, msgs |-> <<>>]

\* msgs := Keys(keys...): msgs := make([]tea.Msg, len(keys))
KeysCall(keys) ==
    /\ kmsg.pc = "idle"
    /\ kmsg' = [pc |-> "range", keys |-> keys, i |-> 1, msgs |-> <<>>]
    /\ UNCHANGED <<UpdateSnapshots, snapshotBaseDir, fs, last, pth, d,
                   boot, entry, inflight, rec, resp, ex, chk>>

\* msgs[i] = Key(k)
KeysStep ==
    /\ kmsg.pc = "range"
    /\ kmsg.i <= Len(kmsg.keys)
    /\ kmsg' = [kmsg EXCEPT !.msgs = Append(@, Key(kmsg.keys[kmsg.i])), !.i = @ + 1]
    /\ UNCHANGED <<UpdateSnapshots, snapshotBaseDir, fs, last, pth, d,
                   boot, entry, inflight, rec, resp, ex, chk>>

\* return msgs
KeysReturn ==
    /\ kmsg.pc = "range"
    /\ kmsg.i > Len(kmsg.keys)
    /\ kmsg' = [kmsg EXCEPT !.pc = "done"]
    /\ UNCHANGED <<UpdateSnapshots, snapshotBaseDir, fs, last, pth, d,
                   boot, entry, inflight, rec, resp, ex, chk>>

NextKeys ==
    \/ \E keys \in SeqsUpTo(KeyInputs, MaxKeys) : KeysCall(keys)
    \/ KeysStep
    \/ KeysReturn

SpecKeys == InitKeys /\ [][NextKeys]_vars

(***************************************************************************)
(* Reading a call record and a rendered diff                               *)
(***************************************************************************)
\* the file-system location of a path of the engine
Loc(p) == Abs(ProcessDir, p)

\* the step is a call of snapshot that returned (or was ended by Fatalf)
IsCall == last' # last /\ ~last'.panicked

HasPart(msg, part) == \E k \in 1..Len(msg) : msg[k] = part
IsMissingReport(r) == HasPart(r.msg, Lit(": golden file not found at "))
IsMismatchReport(r) == HasPart(r.msg, Lit(" mismatch:\n"))
OpNames(call) == {call.ops[k].op : k \in 1..Len(call.ops)}
Matched(call) == call.mode = "compare" /\ ~call.panicked /\ call.reports = <<>>
                 /\ "compare" \in OpNames(call)

IsDigit(c) == \E k \in 1..10 : DigitChars[k] = c

\* the lines of a rendered diff below the two header lines
DiffBody(out) == LET ls == Split(out, "\n") IN SubSeq(ls, 3, Len(ls) - 1)

\* where the line number of a body line ends: the marker, blanks, digits, two blanks, text
NumberEnd(l) ==
    LET first == CHOOSE k \in 2..Len(l) : IsDigit(l[k]) /\ \A h \in 2..(k - 1) : l[h] = " "
    IN  CHOOSE k \in first..Len(l) :
            /\ \A h \in first..k : IsDigit(l[h])
            /\ (k = Len(l) \/ ~IsDigit(l[k + 1]))

WellFormedLine(l) ==
    /\ Len(l) >= 4
    /\ l[1] \in {" ", "+", "-"}
    /\ \E k \in 2..Len(l) : IsDigit(l[k]) /\ \A h \in 2..(k - 1) : l[h] = " "
    /\ NumberEnd(l) + 2 <= Len(l)
    /\ l[NumberEnd(l) + 1] = " " /\ l[NumberEnd(l) + 2] = " "

LineText(l) == SubSeq(l, NumberEnd(l) + 3, Len(l))

\* the texts of the body lines whose marker is in markers, top to bottom
RECURSIVE TextsOf(_, _)
TextsOf(body, markers) ==
    IF body = <<>> THEN <<>>
    ELSE (IF body[1][1] \in markers THEN <<LineText(body[1])>> ELSE <<>>)
         \o TextsOf(Tail(body), markers)

WellFormedDiff(out) ==
    LET ls == Split(out, "\n")
    IN  /\ Len(ls) >= 3
        /\ ls[1] = HeaderExpected
        /\ ls[2] = HeaderActual
        /\ ls[Len(ls)] = <<>>
        /\ \A k \in 3..(Len(ls) - 1) : WellFormedLine(ls[k])

(***************************************************************************)
(* Claims                                                                  *)
(***************************************************************************)

\* C1: an update-mode call with (N, C) that reported nothing, followed immediately
\* by a compare-mode call with the same name, content and directory context,
\* reports no failure: the outcome is Matched.
C1_RoundTrip ==
    [][(/\ IsCall
        /\ last.mode = "update" /\ ~last.panicked /\ last.reports = <<>>
        /\ last'.mode = "compare"
        /\ last'.name = last.name /\ last'.content = last.content /\ last'.path = last.path)
       => Matched(last')]_vars

\* a compare call matched a text ending in a line break
C1_Witness ==
    /\ Matched(last)
    /\ last.content = <<"x", "\n">>

\* C2: when the baseline for N holds C, a compare-mode call with (N, C) reports no
\* failure and leaves the file system as it was, so that any number of such calls
\* in a row all report no failure.
C2_CompareIdempotent ==
    [][(/\ IsCall
        /\ last'.mode = "compare"
        /\ IsFile(fs, Loc(last'.path))
        /\ fs[Loc(last'.path)].data = last'.content)
       => (Matched(last') /\ fs' = fs)]_vars

\* a compare call matched a baseline of one line
C2_Witness ==
    /\ Matched(last)
    /\ last.content = <<"x">>
    /\ IsFile(fs, Loc(last.path))

\* C3: an update-mode call reads nothing, compares nothing, reports neither Missing
\* nor Mismatched, and, unless it reports an I/O failure, leaves the baseline
\* holding exactly the content of the call.
C3_UpdateRewrites ==
    (last.mode = "update" /\ ~last.panicked) =>
        /\ OpNames(last) \subseteq {"MkdirAll", "WriteFile"}
        /\ \A k \in 1..Len(last.reports) :
              ~IsMissingReport(last.reports[k]) /\ ~IsMismatchReport(last.reports[k])
        /\ last.reports = <<>> =>
              /\ IsFile(fs, Loc(last.path))
              /\ fs[Loc(last.path)].data = last.content

\* an update call rewrote a baseline that existed
C3_Witness ==
    /\ last.mode = "update" /\ last.reports = <<>>
    /\ last.content = <<"x">>
    /\ \E k \in 1..Len(last.ops) : last.ops[k].op = "WriteFile" /\ last.ops[k].made = {}

\* C4: in compare mode with a baseline present, the call reports nothing iff the
\* stored text equals the candidate exactly; otherwise it reports exactly one
\* failure, an Errorf, that carries the name and the diff of (stored, candidate).
C4_CompareExact ==
    [][(/\ IsCall
        /\ last'.mode = "compare"
        /\ IsFile(fs, Loc(last'.path)))
       => LET stored == fs[Loc(last'.path)].data
          IN  /\ (last'.reports = <<>>) <=> (stored = last'.content)
              /\ stored # last'.content =>
                    /\ Len(last'.reports) = 1
                    /\ last'.reports[1].sev = "Errorf"
                    /\ HasPart(last'.reports[1].msg, ArgQ(last'.name))
                    /\ HasPart(last'.reports[1].msg,
                               ArgS(unifiedDiff(stored, last'.content)))]_vars

\* a compare call reported a mismatch that lies in the line break at the end alone
C4_Witness ==
    /\ last.mode = "compare"
    /\ IsFile(fs, Loc(last.path))
    /\ fs[Loc(last.path)].data = <<"x", "\n">>
    /\ last.content = <<"x">>
    /\ Len(last.reports) = 1

\* C5: in compare mode, when nothing exists at the resolved path, the first report
\* of the call is a Fatalf whose message carries the resolved path and the
\* instruction to run with UPDATE_SNAPSHOTS=1, whatever the candidate is.
C5_MissingBaseline ==
    [][(/\ IsCall
        /\ last'.mode = "compare"
        /\ Loc(last'.path) \notin DOMAIN fs
        /\ Obstacle(fs, Loc(last'.path)) = {})
       => /\ last'.reports # <<>>
          /\ last'.reports[1].sev = "Fatalf"
          /\ HasPart(last'.reports[1].msg, ArgS(last'.path))
          /\ HasPart(last'.reports[1].msg, Lit("UPDATE_SNAPSHOTS=1"))]_vars

\* a compare call with the empty candidate found no baseline
C5_Witness ==
    /\ last.mode = "compare"
    /\ last.content = <<>>
    /\ last.reports # <<>>
    /\ IsMissingReport(last.reports[1])

\* C6: an update-mode call whose directory does not exist (and with no regular file
\* in the way) creates every missing directory, then the file, reports nothing, and
\* leaves a file holding exactly the candidate at the resolved path.
C6_DirectoryBootstrap ==
    [][(/\ IsCall
        /\ last'.mode = "update"
        /\ Loc(Dir(last'.path)) \notin DOMAIN fs
        /\ Obstacle(fs, Loc(last'.path)) = {})
       => /\ last'.reports = <<>>
          /\ \A q \in Ancestors(Loc(last'.path)) : IsDir(fs', q)
          /\ IsFile(fs', Loc(last'.path))
          /\ fs'[Loc(last'.path)].data = last'.content
          /\ Len(last'.ops) = 2
          /\ last'.ops[1].op = "MkdirAll" /\ last'.ops[2].op = "WriteFile"]_vars

\* an update call created three levels of directories and the file in them
C6_Witness ==
    /\ last.mode = "update" /\ last.reports = <<>>
    /\ Len(last.ops) = 2
    /\ Cardinality(last.ops[1].made) >= 3
    /\ last.ops[2].made = {Loc(last.path)}
    /\ fs[Loc(last.path)].data = last.content

\* C7: unifiedDiff(X, X) is the two header lines followed by one context line per
\* line of X, in order, and by no addition and no removal.
C7_DiffNoChange ==
    (d.pc = "done" /\ d.expected = d.actual) =>
        /\ WellFormedDiff(d.out)
        /\ \A k \in 1..Len(DiffBody(d.out)) : DiffBody(d.out)[k][1] = " "
        /\ TextsOf(DiffBody(d.out), {" "}) = Split(d.expected, "\n")

\* the diff of a text of three lines with itself
C7_Witness ==
    /\ d.pc = "done"
    /\ d.expected = d.actual
    /\ Len(DiffBody(d.out)) = 3

\* C8: for every X and Y the texts of the context and removal lines of the diff,
\* top to bottom, are the lines of X, and the texts of the context and addition
\* lines are the lines of Y.
C8_DiffComplete ==
    d.pc = "done" =>
        /\ WellFormedDiff(d.out)
        /\ TextsOf(DiffBody(d.out), {" ", "-"}) = Split(d.expected, "\n")
        /\ TextsOf(DiffBody(d.out), {" ", "+"}) = Split(d.actual, "\n")

\* a diff with a context line, a removal and an addition
C8_Witness ==
    /\ d.pc = "done"
    /\ \E k \in 1..Len(DiffBody(d.out)) : DiffBody(d.out)[k][1] = " "
    /\ \E k \in 1..Len(DiffBody(d.out)) : DiffBody(d.out)[k][1] = "-"
    /\ \E k \in 1..Len(DiffBody(d.out)) : DiffBody(d.out)[k][1] = "+"

\* C9: with a baseline directory D configured the path is D/N.golden whoever the
\* caller is, and even when no caller is found; with none configured it is
\* <directory of the caller's file>/testdata/snapshots/N.golden, an absolute path
\* that names the same file from every working directory.
C9_PathResolution ==
    pth.pc = "done" =>
        LET name  == pth.name
            file  == name \o GoldenExt
            res   == pth.res
            plain == \A k \in 1..Len(name) : name[k] # "/"
            sub   == <<"/">> \o TestdataSeg \o <<"/">> \o SnapshotsSeg \o <<"/">>
        IN  /\ snapshotBaseDir # <<>> =>
                  /\ res.ok
                  /\ res.base = snapshotBaseDir
                  /\ res.path = Clean(snapshotBaseDir \o <<"/">> \o file)
                  /\ (plain /\ snapshotBaseDir \in {TempDir, NestedDir, <<"r">>}) =>
                        res.path = snapshotBaseDir \o <<"/">> \o file
                  /\ \A c \in PathCallers : snapshotPath(name, c, snapshotBaseDir) = res
            /\ (snapshotBaseDir = <<>> /\ pth.caller # NoCaller) =>
                  /\ res.ok
                  /\ res.path = Clean(Dir(pth.caller) \o sub \o file)
                  /\ (plain /\ pth.caller = TestFile) => res.path = ProcessDir \o sub \o file
                  /\ (plain /\ pth.caller = OtherTestFile) => res.path = OtherDir \o sub \o file
                  /\ \A w \in WorkDirs : Abs(w, res.path) = res.path

\* a configured directory was used although no caller could be found
C9_Witness ==
    /\ pth.pc = "done"
    /\ snapshotBaseDir = NestedDir
    /\ pth.caller = NoCaller
    /\ pth.name = <<"a">>
    /\ pth.res.path = NestedDir \o <<"/", "a">> \o GoldenExt

\* C10: the name is sanitized into a basename, so that the golden file of every call
\* is a direct child of the baseline directory and no call reads or writes a file
\* outside that directory.
C10_NameSanitized ==
    (last.mode # "none" /\ ~last.panicked) =>
        /\ Dir(Loc(last.path)) = Loc(last.dir)
        /\ \A k \in 1..Len(last.ops) :
              last.ops[k].op \in {"ReadFile", "WriteFile"} =>
                  Within(Loc(last.dir), Loc(last.ops[k].path))


(***************************************************************************)
(* Claims about concurrent calls (SpecRace)                                *)
(***************************************************************************)
\* what a compare call for the name would read as its baseline
BaselineOf(f, name) == ReadFile(f, ProcessDir, snapshotPath(name, TestFile, snapshotBaseDir).path)

\* goroutine g takes a step of its call
Moves(g) == inflight'[g] # inflight[g]

\* C11: calls with different names work on different files: no step of a call for a name
\* changes the baseline of a different name, however the calls interleave.
C11_Isolation ==
    [][\A g \in Goroutines :
          Moves(g) =>
             \A m \in RaceNames \ {inflight'[g].name} : BaselineOf(fs', m) = BaselineOf(fs, m)]_vars

\* the bytes of c written at offset 0 of a file that holds c2
Overlay(c, c2) == c \o SubSeq(c2, Len(c) + 1, Len(c2))

\* what the golden files of the run can hold: the baseline found in place, a file cut to
\* length 0, or the content of one update followed by the rest of another's
Torn == {RaceBaseline, <<>>} \cup {Overlay(c, c2) : c \in RaceContents, c2 \in RaceContents}

\* C12: the engine takes no lock around baseline I/O, so a golden file is visible between
\* the two halves of an update's write: what a racing compare reads and what racing updates
\* leave is the baseline found in place, a file cut to length 0, or the content of one
\* update followed by the rest of another's.
C12_NoLock ==
    /\ \A p \in Files(fs) : fs[p].data \in Torn
    /\ \A g \in Goroutines :
          inflight[g].pc = "done" /\ inflight[g].mode = "compare" => inflight[g].seen \in Torn

\* two updates of one file have raced and left a baseline that is the content of neither,
\* and a compare of the same file has read what is neither the baseline found by the run
\* nor the content of either update
C12_Witness ==
    \E g1, g2, g3 \in Goroutines :
        /\ inflight[g1].pc = "done" /\ inflight[g1].mode = "update"
        /\ inflight[g2].pc = "done" /\ inflight[g2].mode = "update"
        /\ inflight[g3].pc = "done" /\ inflight[g3].mode = "compare"
        /\ Loc(inflight[g1].path) = Loc(inflight[g2].path)
        /\ Loc(inflight[g1].path) = Loc(inflight[g3].path)
        /\ inflight[g1].reports = <<>> /\ inflight[g2].reports = <<>>
        /\ inflight[g1].content # inflight[g2].content
        /\ fs[Loc(inflight[g1].path)].data \notin {inflight[g1].content, inflight[g2].content}
        /\ inflight[g3].seen \notin {RaceBaseline, inflight[g1].content, inflight[g2].content}
        /\ \E k \in 1..Len(inflight[g3].reports) : IsMismatchReport(inflight[g3].reports[k])


(***************************************************************************)
(* Claims about the switch (SpecSwitch)                                    *)
(***************************************************************************)
ModeOf(b) == IF b THEN "update" ELSE "compare"

\* the value the history of the process gives the switch: the last value assigned, or the
\* one set by init() when test code has assigned none
Assigned ==
    IF boot.assigned = <<>> THEN initUpdateSnapshots(boot.env)
    ELSE boot.assigned[Len(boot.assigned)]

\* C13: the mode of a call is given by the value of UpdateSnapshots at the moment of the
\* call alone: the value set at process start or, after assignments in either direction,
\* the last value assigned; it does not depend on the mode of an earlier call.
C13_SwitchAtCallTime ==
    [][last' # last => /\ last'.mode = ModeOf(UpdateSnapshots)
                       /\ last'.mode = ModeOf(Assigned)]_vars

\* the environment asked for update mode, test code assigned false, true, false; an update
\* call has written the baseline and the last call compared
C13_Witness ==
    /\ boot.pc = "run"
    /\ boot.env = "1"
    /\ boot.assigned = <<FALSE, TRUE, FALSE>>
    /\ Files(fs) # {}
    /\ last.mode = "compare"

\* C14: after process start the switch is on for every truthy value of UPDATE_SNAPSHOTS
\* ("1", "true", "yes") and off when the variable is unset, empty or falsy.
C14_EnvToggle ==
    boot.pc = "run" /\ boot.assigned = <<>>
        => UpdateSnapshots = (boot.env \in {"1", "true", "yes"})


(***************************************************************************)
(* Claims about the entry points (SpecEntry)                               *)
(***************************************************************************)
Visual == {"SnapshotStr", "SnapshotView"}

\* an entry point is called
IsEntry == entry'.pc = "called" /\ <<entry', last', fs'>> # <<entry, last, fs>>

HasEsc(s) == \E k \in 1..Len(s) : s[k] = Esc

\* the text that stays when every byte of a control sequence is taken out: a second
\* reading of the view, by positions, that does not use Strip
InSequence(s, k) ==
    \E e \in 1..k :
        /\ s[e] = Esc
        /\ \A i \in (e + 1)..k : s[i] # Esc
        /\ \/ k = e
           \/ k = e + 1
           \/ /\ s[e + 1] = "["
              /\ \A i \in (e + 2)..(k - 1) : IsParam(s[i]) \/ s[i] = "\n"
RECURSIVE VisibleFrom(_, _)
VisibleFrom(s, k) ==
    IF k > Len(s) THEN <<>>
    ELSE (IF s[k] = "\n" \/ ~InSequence(s, k) THEN <<s[k]>> ELSE <<>>) \o VisibleFrom(s, k + 1)
Visible(s) == VisibleFrom(s, 1)

\* C15: SnapshotStr and SnapshotView store and compare the view with every control
\* sequence removed, SnapshotStrRaw and SnapshotViewRaw the view byte for byte; the
\* candidate is normalized once, before the branch: update writes exactly the candidate,
\* and compare matches exactly when the file holds the candidate.
C15_Normalization ==
    [][IsEntry =>
          LET cand == IF entry'.fn \in Visual THEN Visible(entry'.view) ELSE entry'.view
          IN  /\ last'.content = cand
              /\ entry'.fn \in Visual => ~HasEsc(last'.content)
              /\ last'.mode = "update" /\ last'.reports = <<>>
                    => fs'[Loc(last'.path)].data = cand
              /\ last'.mode = "compare" /\ IsFile(fs, Loc(last'.path))
                    => (Matched(last') <=> fs[Loc(last'.path)].data = cand)]_vars

\* a baseline that holds the visible text alone is matched through SnapshotView by a
\* view with control sequences around that text
C15_Witness ==
    /\ entry.pc = "called"
    /\ entry.fn = "SnapshotView"
    /\ HasEsc(entry.view)
    /\ Matched(last)
    /\ IsFile(fs, Loc(last.path))
    /\ fs[Loc(last.path)].data = <<"x">>


(***************************************************************************)
(* Claims about I/O failures (Spec)                                        *)
(***************************************************************************)
\* a file operation of the call failed, other than the read of a file that does not exist
IoFailed(o) == o.err # NoErr /\ ~(o.op = "ReadFile" /\ IsNotExist(o.err))

\* C16: when creating the directory, writing the file, or reading a file that exists but
\* cannot be read fails, the call reports the failure through Fatalf, never through Errorf
\* and never not at all, as its first report, and the message carries the I/O error and
\* the path that was tried.
C16_IoFailureFatal ==
    [][IsCall =>
          \A k \in 1..Len(last'.ops) :
              LET o == last'.ops[k]
              IN  IoFailed(o) =>
                    /\ last'.reports # <<>>
                    /\ last'.reports[1].sev = "Fatalf"
                    /\ \E j \in 1..Len(last'.reports) :
                          /\ last'.reports[j].sev = "Fatalf"
                          /\ HasPart(last'.reports[j].msg, ArgV(o.err))
                          /\ \/ HasPart(last'.reports[j].msg, ArgS(o.path))
                             \/ o.op = "ReadFile" /\ o.err.path = o.path
                    /\ \A j \in 1..Len(last'.reports) :
                          last'.reports[j].sev = "Errorf"
                              => ~HasPart(last'.reports[j].msg, ArgV(o.err))]_vars

\* a compare call found a directory where its golden file should be, and reported the
\* read failure, and nothing else, through Fatalf
C16_Witness ==
    /\ last.mode = "compare"
    /\ \E k \in 1..Len(last.ops) :
          /\ last.ops[k].op = "ReadFile"
          /\ last.ops[k].err.errno = "EISDIR"
          /\ last.reports = <<Fatalf(ReadMsg(last.name, last.ops[k].err))>>


\* the entries of a list of calls made with the method
LogFor(log, method) == SelectSeq(log, LAMBDA c : c.Method = method)

(***************************************************************************)
(* Claims about Record called from several goroutines (SpecRecord)         *)
(***************************************************************************)
\* no goroutine is inside Record
Finished == \A w \in Workers : rec.g[w].pc = "idle"

RECURSIVE Invoked(_)
Invoked(W) ==
    IF W = {} THEN 0
    ELSE LET w == CHOOSE x \in W : TRUE IN rec.g[w].n + Invoked(W \ {w})

\* C17: when the goroutines have finished their calls of Record, Calls() has as many
\* entries as Record was invoked, none lost and none twice, and the calls of each
\* goroutine stand in the order the goroutine made them.
C17_RecordConcurrent ==
    [][rec'.op = "Calls" /\ rec' # rec /\ Finished =>
          /\ Len(rec'.ret.list) = Invoked(Workers)
          /\ \A w \in Workers :
                LogFor(rec'.ret.list, MethodOf(w))
                   = [k \in 1..rec.g[w].n |-> [Method |-> MethodOf(w), Args |-> <<k>>]]]_vars

\* every goroutine has made all its calls, the calls of the goroutines are interleaved,
\* and Calls() shows them all
C17_Witness ==
    /\ rec.op = "Calls"
    /\ Finished
    /\ \A w \in Workers : rec.g[w].n = MaxRecords
    /\ Len(rec.ret.list) = MaxRecords * Cardinality(Workers)
    /\ rec.ret.list[1].Method # rec.ret.list[2].Method
    /\ rec.ret.list[2].Method # rec.ret.list[3].Method

(***************************************************************************)
(* Claims about MockCallRecorder used from one goroutine                   *)
(***************************************************************************)
\* what Calls() would return now
CallsNow(r) == Seen(r.heap, copyCalls(r.calls))

\* C18: Calls returns a copy: nothing the caller writes into the returned slice, be it
\* the Method of an entry or an element of its Args, changes what Calls, CallsFor or
\* CallCount return afterwards.
C18_CallsReturnsCopy ==
    [][rec'.op \in {"SetMethod", "SetArg"} =>
          /\ CallsNow(rec') = CallsNow(rec)
          /\ \A m \in Methods :
                /\ Seen(rec'.heap, filterCalls(rec'.calls, m, 1))
                      = Seen(rec.heap, filterCalls(rec.calls, m, 1))
                /\ countCalls(rec'.calls, m, 1) = countCalls(rec.calls, m, 1)]_vars

\* C19: Calls() is the list of the Record invocations since the last Reset, in order;
\* CallsFor(m) is the part of that list with method m, in order; CallCount(m) is the
\* length of CallsFor(m), 0 for a method never recorded; right after Reset every count
\* is 0 and Calls() is empty; CallCount, Calls and CallsFor leave the recorded calls alone.
C19_Bookkeeping ==
    [][rec' # rec =>
          /\ rec'.op = "Calls" => rec'.ret.list = rec.log
          /\ rec'.op = "CallsFor" => rec'.ret.list = LogFor(rec.log, rec'.ret.method)
          /\ rec'.op = "CallCount" =>
                /\ rec'.ret.count = Len(LogFor(rec.log, rec'.ret.method))
                /\ rec'.ret.count = Len(filterCalls(rec.calls, rec'.ret.method, 1))
          /\ rec'.op = "Reset" =>
                /\ CallsNow(rec') = <<>>
                /\ \A m \in Methods : countCalls(rec'.calls, m, 1) = 0
          /\ rec'.op \in {"Calls", "CallsFor", "CallCount"} =>
                /\ rec'.calls = rec.calls
                /\ rec'.heap = rec.heap
                /\ rec'.log = rec.log]_vars

\* a call was recorded and reset away, then a call of each method was recorded, and
\* CallCount has counted one of them
C19_Witness ==
    /\ rec.op = "CallCount"
    /\ rec.n = 3
    /\ Len(rec.log) = 2
    /\ rec.log[1].Method # rec.log[2].Method
    /\ rec.ret.count = 1

(***************************************************************************)
(* Claims about MockResponseMap (SpecResponses)                            *)
(***************************************************************************)
\* goroutine w takes the step from pc to pc2 of its call
RespStep(w, pc, pc2) == resp.g[w].pc = pc /\ resp'.g[w].pc = pc2

\* C20: Get(key) returns the data and the error of the last Set or SetError for the key
\* that has returned, or (nil, nil) when none has; SetError(key, err) stores what
\* Set(key, nil, err) stores; Get never changes the map, and a Set for one key never
\* changes the response of another key; all of it with calls from several goroutines.
C20_ResponseLookup ==
    [][\A w \in Clients :
          LET c == resp.g[w]
          IN  /\ RespStep(w, "locked", "unlock") /\ c.fn = "Get" =>
                    /\ resp'.g[w].ret = resp.done[c.key]
                    /\ resp'.responses = resp.responses
              /\ RespStep(w, "locked", "unlock") /\ c.fn # "Get" =>
                    /\ resp'.responses[c.key] = MockResponse(c.data, c.err)
                    /\ c.fn = "SetError" => resp'.responses[c.key].Data = Nil
                    /\ \A k \in Keys \ {c.key} : resp'.responses[k] = resp.responses[k]
              /\ c.fn = "Get" /\ resp'.g[w] # c => resp'.responses = resp.responses]_vars

\* a Get has returned the error stored by a SetError that had replaced the data of a Set,
\* while the other goroutine is calling Set for the same key and the other key is not set
C20_Witness ==
    \E w \in Clients : \E v \in Clients \ {w} :
        /\ resp.g[w].pc = "idle" /\ resp.g[w].fn = "Get"
        /\ resp.g[w].ret = MockResponse(Nil, "e1")
        /\ resp.g[v].pc = "called" /\ resp.g[v].fn = "Set"
        /\ resp.g[v].key = resp.g[w].key /\ resp.g[v].data = "d1"
        /\ \E k \in Keys \ {resp.g[w].key} : ~resp.responses[k].ok

(***************************************************************************)
(* Claims about ExecCmds (SpecExec)                                        *)
(***************************************************************************)
\* the batch cmds among the members of the batch that cmd c returns
BatchMembers(c) ==
    {ex.returns[c].cmds[k] : k \in 1..Len(ex.returns[c].cmds)} \cap BatchCmds

\* the batch cmds reached from the set S in at most n levels of nesting
RECURSIVE Nested(_, _)
Nested(S, n) ==
    IF n = 0 THEN S ELSE Nested(S \cup UNION {BatchMembers(c) : c \in S}, n - 1)

\* no batch reached from the input of the call is nested in itself
AcyclicNesting ==
    LET top == {ex.input[k] : k \in 1..Len(ex.input)} \cap BatchCmds
    IN  \A c \in Nested(top, Cardinality(BatchCmds)) :
            c \notin Nested(BatchMembers(c), Cardinality(BatchCmds))

\* the messages of a list of cmds, depth first: nothing for a nil cmd and for a nil message,
\* the messages of its members for a batch, the message itself otherwise
RECURSIVE Flattened(_)
Flattened(cmds) ==
    IF cmds = <<>> THEN <<>>
    ELSE LET c == Head(cmds)
             own == IF c = NilCmd \/ ex.returns[c] = NilMsg THEN <<>>
                    ELSE IF c \in BatchCmds THEN Flattened(ex.returns[c].cmds)
                    ELSE <<ex.returns[c]>>
         IN  own \o Flattened(Tail(cmds))

\* the cmds to be run, depth first: every non-nil cmd, a batch followed by its members
RECURSIVE RunOrder(_)
RunOrder(cmds) ==
    IF cmds = <<>> THEN <<>>
    ELSE LET c == Head(cmds)
             own == IF c = NilCmd THEN <<>>
                    ELSE IF c \in BatchCmds THEN <<c>> \o RunOrder(ex.returns[c].cmds)
                    ELSE <<c>>
         IN  own \o RunOrder(Tail(cmds))

\* C21: a call of ExecCmds that returns has run every non-nil cmd once, in input order and
\* depth first through the batches, and returns the messages in that order: nothing for a
\* nil cmd or a nil message, the messages of its members in place of a BatchMsg; the result
\* holds no BatchMsg; and a call whose batches are not nested in themselves returns.
C21_ExecCmdsFlattening ==
    /\ [](ex.pc = "done" =>
            /\ ex.ran = RunOrder(ex.input)
            /\ ex.msgs = Flattened(ex.input)
            /\ \A k \in 1..Len(ex.msgs) : ex.msgs[k].type \in {"incMsg", "decMsg"})
    /\ ((ex.pc = "run" /\ AcyclicNesting) ~> (ex.pc = "done"))

\* a call has returned whose input holds a batch with a batch in it, after a nil cmd and a
\* nil message were skipped, with messages from both levels of nesting
C21_Witness ==
    /\ ex.pc = "done"
    /\ ex.input = <<"batch1", "cmdDec">>
    /\ ex.returns["batch1"].cmds = <<"batch2", "cmdInc">>
    /\ ex.returns["batch2"].cmds = <<NilCmd, "cmdNil">>
    /\ ex.msgs = <<Msg("incMsg"), Msg("decMsg")>>

(***************************************************************************)
(* Claims about InvariantChecker.Check (SpecCheck)                         *)
(***************************************************************************)
\* the registered invariants that do not accept the state of the call
ViolatedBy(s) ==
    {chk.invariants[k] : k \in 1..Len(chk.invariants)} \cap
    {name \in InvariantNames : InvariantCheck(name, s) # Nil}

\* the invariants that the returned error reports
Reported == IF chk.ret = NoError THEN {} ELSE {chk.ret.name}

\* C22: Check returns nil exactly if every registered invariant accepts the state (nil when
\* none is registered); otherwise the error it returns reports every violated invariant,
\* and every registered invariant has been evaluated.
C22_CheckAll ==
    chk.pc = "done" =>
        /\ chk.ret = NoError <=> ViolatedBy(chk.s) = {}
        /\ chk.ret # NoError =>
              /\ Reported = ViolatedBy(chk.s)
              /\ chk.evaluated = chk.invariants

(***************************************************************************)
(* Claims about the key-message builder (SpecKeys)                         *)
(***************************************************************************)
\* the message built for the key string at position n of the call
Built(n) == kmsg.msgs[n]

\* C23: for a key string k of one rune (none is a named key) Key(k) is a KeyRunes message
\* with Runes exactly [k] and Alt false, and Key("alt+" + k) is that message with Alt true;
\* named keys and ctrl combinations are matched whatever the case of their letters.
C23_KeyRunes ==
    \A n \in 1..Len(kmsg.msgs) :
        LET k == kmsg.keys[n]
        IN  /\ Len(k) = 1 /\ k \notin KeyNames =>
                  Built(n) = [Type |-> "KeyRunes", Runes |-> k, Alt |-> FALSE]
            /\ HasPrefix(k, AltPrefix) /\ Len(k) = 5 =>
                  Built(n) = [Type |-> "KeyRunes", Runes |-> SubSeq(k, 5, 5), Alt |-> TRUE]
            /\ ToLower(k) \in KeyNames =>
                  Built(n) = Key(ToLower(k))

(***************************************************************************)
(* Claims about the lines of the diff (SpecDiff)                           *)
(***************************************************************************)
\* the number that a sequence of digits writes
RECURSIVE NumberOf(_)
NumberOf(ds) ==
    IF ds = <<>> THEN 0
    ELSE 10 * NumberOf(SubSeq(ds, 1, Len(ds) - 1))
         + (CHOOSE v \in 0..9 : DigitChars[v + 1] = ds[Len(ds)])

\* the line number that a body line carries
LineNo(l) ==
    LET first == CHOOSE k \in 2..Len(l) : IsDigit(l[k]) /\ \A h \in 2..(k - 1) : l[h] = " "
    IN  NumberOf(SubSeq(l, first, NumberEnd(l)))

\* the body line reads: marker, number n, text
Reads(l, marker, n, text) == l[1] = marker /\ LineNo(l) = n /\ LineText(l) = text

\* the body of the finished diff, and the positions of its lines with a marker
Body == DiffBody(d.out)
Marked(markers) == {p \in 1..Len(Body) : Body[p][1] \in markers}

\* baseline and candidate have the same number of lines and differ at line k only
DifferAt(k) ==
    /\ Len(d.expLines) = Len(d.actLines)
    /\ k \in 1..Len(d.expLines)
    /\ \A h \in 1..Len(d.expLines) : (d.expLines[h] # d.actLines[h]) <=> h = k

\* where the run of baseline lines equal to line k, and ending at line k, starts
RunStart(k) ==
    CHOOSE r \in 1..k :
        /\ \A h \in r..k : d.expLines[h] = d.expLines[k]
        /\ r = 1 \/ d.expLines[r - 1] # d.expLines[k]

\* C24 as stated: when baseline and candidate differ at line k only, the body has one
\* removal, numbered k with the baseline's line k, directly followed by one addition,
\* numbered k with the candidate's line k, and every other line is a context line.
C24_SingleLineReplacement ==
    d.pc = "done" =>
        \A k \in 1..Len(d.expLines) : DifferAt(k) =>
            /\ Len(Body) = Len(d.expLines) + 1
            /\ Marked({"-"}) = {k}
            /\ Marked({"+"}) = {k + 1}
            /\ Reads(Body[k], "-", k, d.expLines[k])
            /\ Reads(Body[k + 1], "+", k, d.actLines[k])
            /\ \A p \in 1..Len(Body) : p \notin {k, k + 1} =>
                  LET h == IF p < k THEN p ELSE p - 1
                  IN  Reads(Body[p], " ", h, d.expLines[h])

\* C24 amended: when baseline and candidate differ at line k only, the body has one
\* removal and, below it, one addition numbered k with the candidate's line k, and every
\* other line is a context line. The removal is numbered r, where lines r..k of the
\* baseline are the run of lines equal to line k that ends at k: it is numbered k and
\* directly followed by the addition exactly if k = 1 or baseline line k - 1 differs from
\* line k, and otherwise the context lines r+1..k stand between the two.
C24_SingleLineReplacementRun ==
    d.pc = "done" =>
        \A k \in 1..Len(d.expLines) : DifferAt(k) =>
            LET r == RunStart(k)
            IN  /\ Len(Body) = Len(d.expLines) + 1
                /\ Marked({"-"}) = {r}
                /\ Marked({"+"}) = {k + 1}
                /\ Reads(Body[r], "-", r, d.expLines[k])
                /\ Reads(Body[k + 1], "+", k, d.actLines[k])
                /\ \A p \in 1..Len(Body) : p \notin {r, k + 1} =>
                      LET h == IF p <= k THEN p ELSE p - 1
                      IN  Reads(Body[p], " ", h, d.expLines[h])
                /\ (r = k) <=> (k = 1 \/ d.expLines[k - 1] # d.expLines[k])

\* the diff of two texts of three lines that differ at one line only, where the changed
\* line of the baseline follows a line equal to it
C24_Witness ==
    /\ d.pc = "done"
    /\ Len(d.expLines) = 3
    /\ \E k \in 2..3 : DifferAt(k) /\ RunStart(k) < k

\* the numbers of the body lines whose marker is in markers, top to bottom
RECURSIVE NumbersOf(_, _)
NumbersOf(body, markers) ==
    IF body = <<>> THEN <<>>
    ELSE (IF body[1][1] \in markers THEN <<LineNo(body[1])>> ELSE <<>>)
         \o NumbersOf(Tail(body), markers)

\* C25: every body line carries the 1-based number of its line on its own side: a removal
\* and a context line the index of the line in the baseline, an addition the index of the
\* line in the candidate. Top to bottom the numbers of the removal and context lines run
\* 1..m, and the numbers of the additions increase strictly within 1..n.
C25_LineNumbers ==
    d.pc = "done" =>
        LET m == Len(d.expLines)
            n == Len(d.actLines)
            added == NumbersOf(Body, {"+"})
        IN  /\ \A p \in 1..Len(Body) :
                  /\ Body[p][1] \in {" ", "-"} =>
                        LineNo(Body[p]) \in 1..m /\ LineText(Body[p]) = d.expLines[LineNo(Body[p])]
                  /\ Body[p][1] = "+" =>
                        LineNo(Body[p]) \in 1..n /\ LineText(Body[p]) = d.actLines[LineNo(Body[p])]
            /\ NumbersOf(Body, {" ", "-"}) = [h \in 1..m |-> h]
            /\ \A p \in 1..Len(added) : added[p] \in 1..n
            /\ \A p \in 1..(Len(added) - 1) : added[p] < added[p + 1]

\* a diff with a removal above an addition numbered 1, and with a context line whose
\* number is not its position in the body
C25_Witness ==
    /\ d.pc = "done"
    /\ \E p \in 1..Len(Body), q \in 1..Len(Body) :
          /\ p < q
          /\ Body[p][1] = "-"
          /\ Body[q][1] = "+" /\ LineNo(Body[q]) = 1
    /\ \E p \in 1..Len(Body) : Body[p][1] = " " /\ LineNo(Body[p]) # p

\* the elements of s at the positions in I, in order
RECURSIVE Pick(_, _, _)
Pick(s, I, k) ==
    IF k > Len(s) THEN <<>>
    ELSE (IF k \in I THEN <<s[k]>> ELSE <<>>) \o Pick(s, I, k + 1)

\* x can be had from y by leaving elements out
RECURSIVE IsSubsequence(_, _)
IsSubsequence(x, y) ==
    IF x = <<>> THEN TRUE
    ELSE IF y = <<>> THEN FALSE
    ELSE IF Head(x) = Head(y) THEN IsSubsequence(Tail(x), Tail(y))
    ELSE IsSubsequence(x, Tail(y))

\* the length of a longest common subsequence of a and b, by trying every choice of
\* positions of a
LcsLength(a, b) ==
    LET common == {I \in SUBSET (1..Len(a)) : IsSubsequence(Pick(a, I, 1), b)}
    IN  CHOOSE v \in 0..Len(a) :
            /\ \E I \in common : Cardinality(I) = v
            /\ \A I \in common : Cardinality(I) <= v

\* C26: the table built for line sequences a (m lines) and b (n lines) has the cells
\* (0..m) x (0..n); row 0 and column 0 are zero; the cell (i, j) is the length of a
\* longest common subsequence of the first i lines of a and the first j lines of b.
C26_LcsTable ==
    d.pc \in {"loop", "done"} =>
        LET m == Len(d.expLines)
            n == Len(d.actLines)
        IN  /\ DOMAIN d.lcs = (0..m) \X (0..n)
            /\ \A i \in 0..m : d.lcs[<<i, 0>>] = 0
            /\ \A j \in 0..n : d.lcs[<<0, j>>] = 0
            /\ \A i \in 0..m, j \in 0..n :
                  d.lcs[<<i, j>>] = LcsLength(SubSeq(d.expLines, 1, i), SubSeq(d.actLines, 1, j))

\* a table with a cell of value 2, and with a cell for unequal lines whose value comes
\* from the cell to its left, the cell above it being smaller
C26_Witness ==
    /\ d.pc = "loop"
    /\ \E ij \in DOMAIN d.lcs : d.lcs[ij] = 2
    /\ \E i \in 1..Len(d.expLines), j \in 1..Len(d.actLines) :
          /\ d.expLines[i] # d.actLines[j]
          /\ d.lcs[<<i - 1, j>>] < d.lcs[<<i, j - 1>>]

\* the body of a finished diff has, with L the length of a longest common subsequence of
\* the m baseline lines and the n candidate lines, L context lines, m - L removals and
\* n - L additions
MinimalBody ==
    LET m == Len(d.expLines)
        n == Len(d.actLines)
        L == LcsLength(d.expLines, d.actLines)
    IN  /\ Cardinality(Marked({" "})) = L
        /\ Cardinality(Marked({"-"})) = m - L
        /\ Cardinality(Marked({"+"})) = n - L
        /\ Len(Body) = m + n - L
        /\ Len(Body) >= 1
        /\ m >= 1 /\ n >= 1

\* C27: every iteration of the backtrack moves to a smaller position (so the loop ends),
\* and the finished diff of X and Y has exactly L context lines, m - L removals and
\* n - L additions, m + n - L body lines in all and never none; the diff of the empty
\* text with itself has one context line.
C27_DiffMinimal ==
    /\ [](d.pc = "done" =>
            /\ MinimalBody
            /\ d.expected = <<>> /\ d.actual = <<>> =>
                  Len(Body) = 1 /\ Reads(Body[1], " ", 1, <<>>))
    /\ [][d.pc = "loop" /\ d'.pc = "loop" =>
            /\ d'.i + d'.j < d.i + d.j
            /\ d'.i >= 0 /\ d'.j >= 0
            /\ Len(d'.lines) = Len(d.lines) + 1]_vars

\* the diff of texts with different numbers of lines that has context lines, removals
\* and additions; the backtrack has ended
C27_Witness ==
    /\ d.pc = "done"
    /\ Len(d.expLines) # Len(d.actLines)
    /\ Marked({" "}) # {} /\ Marked({"-"}) # {} /\ Marked({"+"}) # {}

(***************************************************************************)
(* Claims about the effects of a call (Spec)                               *)
(***************************************************************************)
\* every file and directory stays, and a file keeps being a file
NothingDeleted ==
    \A p \in DOMAIN fs : p \in DOMAIN fs' /\ fs'[p].kind = fs[p].kind

\* C28: a step taken while UpdateSnapshots is false, a call of snapshot included and
\* whatever its outcome, leaves every file and directory as it was; and no step in
\* either mode deletes a file or a directory.
C28_CompareReadOnly ==
    [][/\ ~UpdateSnapshots => fs' = fs
       /\ NothingDeleted]_vars

\* a compare call has reported a mismatch, the baseline still holds the text it held; an
\* update has run before, so that files exist
C28_Witness ==
    /\ last.mode = "compare"
    /\ \E k \in 1..Len(last.reports) : IsMismatchReport(last.reports[k])
    /\ Loc(last.path) \in DOMAIN fs
    /\ fs[Loc(last.path)].kind = "file"
    /\ fs[Loc(last.path)].data # last.content

\* the call issued at most one report, and a fatal report was the last thing it did: the
\* failed file operation is the last operation, no comparison and no diff came after it
OneReport(call) ==
    /\ Len(call.reports) <= 1
    /\ \A k \in 1..Len(call.reports) : call.reports[k].sev = "Fatalf" =>
          /\ call.ops # <<>>
          /\ call.ops[Len(call.ops)].err # NoErr
          /\ \A h \in 1..(Len(call.ops) - 1) : call.ops[h].err = NoErr
          /\ OpNames(call) \cap {"compare", "unifiedDiff"} = {}

\* the step is a call of snapshot with the reporter t
CallWith(t) ==
    /\ last' # last
    /\ \E caller \in Callers :
          LET r == snapshot(t, last'.content, last'.name, caller,
                            UpdateSnapshots, snapshotBaseDir, fs)
          IN  last' = r.call /\ fs' = r.fs

\* what a call does when every Fatalf returns: the reports are issued in the order of the
\* statements, at most two Fatalf and then at most one Errorf
FallsThrough(call) ==
    /\ Len(call.reports) <= 3
    /\ \A k \in 1..Len(call.reports) :
          call.reports[k].sev = "Errorf" => k = Len(call.reports) /\ IsMismatchReport(call.reports[k])
    /\ Cardinality({k \in 1..Len(call.reports) : call.reports[k].sev = "Fatalf"}) <= 2

\* C29 as stated: every call, with any reporter, issues at most one report, and a fatal
\* report is the last thing the call does.
C29_OneReport == OneReport(last)

\* C29 amended: a call whose reporter ends the call in Fatalf (testing.T, the fakeT of the
\* tests) issues at most one report, and a fatal report is the last thing it does: no
\* further report, no comparison, no diff. With a reporter whose Fatalf returns the call
\* goes on with the statements that follow: up to two Fatalf and then a mismatch Errorf.
C29_OneReportWhenFatalfStops ==
    [][/\ CallWith("stop") => OneReport(last')
       /\ CallWith("return") => FallsThrough(last')]_vars

\* a call has found no baseline and issued one fatal report, after its read and nothing
\* else; the reporter has ended the call
C29_Witness ==
    /\ last.mode = "compare"
    /\ Len(last.reports) = 1
    /\ IsMissingReport(last.reports[1])
    /\ last.reports[1].sev = "Fatalf"
    /\ OpNames(last) = {"ReadFile"}

(***************************************************************************)
(* Claims about the mode of a running call (SpecRace)                      *)
(***************************************************************************)
\* goroutine g takes a step of its call
Steps(g) == inflight'[g] # inflight[g]

\* C30: a call takes its mode from the one read of the switch at its start and keeps it
\* whatever is assigned to the switch while it runs. Only a call in update mode changes
\* the file system, only a call in compare mode reads the baseline, compares and reports
\* Missing or Mismatched: no call does both.
C30_ModeAtomic ==
    [][\A g \in Goroutines :
          /\ Steps(g) /\ inflight[g].pc = "idle" =>
                inflight'[g].mode = ModeOf(UpdateSnapshots)
          /\ inflight[g].pc # "idle" => inflight'[g].mode = inflight[g].mode
          /\ Steps(g) /\ fs' # fs => inflight[g].mode = "update"
          /\ Steps(g) /\ inflight[g].pc = "read" => inflight[g].mode = "compare"
          /\ inflight'[g].mode = "update" =>
                /\ inflight'[g].seen = <<>>
                /\ \A k \in 1..Len(inflight'[g].reports) :
                      /\ ~IsMissingReport(inflight'[g].reports[k])
                      /\ ~IsMismatchReport(inflight'[g].reports[k])
          /\ fs' # fs => \E h \in Goroutines : Steps(h)]_vars

\* the switch was turned off while an update was between opening and writing its file:
\* the update goes on as an update, and a call started since, a compare, has read the
\* file cut to length 0 and reported the mismatch
C30_Witness ==
    \E g \in Goroutines, h \in Goroutines :
        /\ ~UpdateSnapshots
        /\ inflight[g].mode = "update" /\ inflight[g].pc = "write"
        /\ inflight[h].mode = "compare" /\ inflight[h].pc = "done"
        /\ inflight[h].path = inflight[g].path
        /\ inflight[h].seen = <<>>
        /\ \E k \in 1..Len(inflight[h].reports) : IsMismatchReport(inflight[h].reports[k])

====
